---- MODULE Spec2Model ----
(***************************************************************************)
(* State-machine model of telegram-digester.                               *)
(*                                                                         *)
(*   - StorageManager (src/src/storage.py): the cursors file, its backups  *)
(*     and the digest history file.                                        *)
(*   - DigestGenerator (src/src/digest_generator.py): per-conversation     *)
(*     digest synthesis, schema validation and repair, combination and     *)
(*     multi-chat rendering.                                               *)
(*                                                                         *)
(* Text is modelled as a sequence of one-character strings, JSON values    *)
(* as one-field records named after their JSON type:                       *)
(*   [str |-> chars], [int |-> n], [null |-> TRUE], [list |-> seq],        *)
(*   [dict |-> function from key to JSON value].                           *)
(***************************************************************************)
EXTENDS Integers, Sequences, FiniteSets, TLC

VARIABLES
    \* ---- StorageManager: the data directory --------------------------------
    cursors_file,   \* cursors.json: NoFile, CorruptFile or a file with a body
    backups,        \* backups/cursors_backup_<ts>.json: timestamp -> file
    now,            \* wall clock, in seconds (the resolution of the backup name)
    instance,       \* number of the StorageManager instance in use
    last_op,        \* the last StorageManager call: operation, arguments, result
    saved,          \* the mapping of the last save_cursors call, when it succeeded
    nops,           \* number of cursor operations issued so far
    history_file,   \* digest_history.json: NoFile or a file holding a list
    appended,       \* every record handed to a successful save_digest_run, in order
    \* ---- DigestGenerator.generate_digest -----------------------------------
    pc,             \* position in generate_digest: idle, chats, finish, done
    filtered_messages, \* the call's argument: the chat name of each message
    chat_messages,  \* grouping by chat, in first-encounter order
    llm_raw,        \* what the LLM layer produced for each chat processed so far
    chat_digests,   \* per-chat digests, in processing order
    llm_calls,      \* number of llm_manager.generate_digest invocations
    result,         \* the DigestResult returned
    \* ---- archive/app.py: delivery of a digest ------------------------------
    delivered,      \* per chat of chat_details: the chat_structured_data rebuilt
    \* ---- backups/: what is there besides the cursor backups ---------------
    other_backups,  \* set of entries [name, is_file, kind, made]
    \* ---- last_digest.json -------------------------------------------------
    last_digest_file,
    \* ---- archive MessageProcessor ------------------------------------------
    processor,           \* the MessageProcessor: its exclude_emoji_only option
    inbox,               \* the messages collected for the next filter call
    filter_result,       \* what the last filter_messages call returned
    \* ---- app.py: main and TelegramDigestBot --------------------------------
    bot_pc,              \* position in main / run_continuous
    args,                \* the parsed command-line flags
    exit_status,         \* status the process exited with, NoStatus before
    cli_result,          \* what the special command did
    running,             \* self.running
    stop_requested,      \* stop() has been called
    interrupted,         \* KeyboardInterrupt has been raised
    interval_numeric,    \* digest.interval_minutes is a number
    sleep_seconds,       \* what is left of the wait between two cycles
    config_file,         \* version of config.yaml / watchlist.yml on disk
    config,              \* self.config: the version it was read from
    last_config_load,    \* self.last_config_load: the version loaded then
    components,          \* the configuration each component was built from
    connected,           \* the gateway session is connected
    reloaded,            \* this iteration of the loop reloaded the configuration
    last_cycle,          \* outcome of the last digest cycle: none, ok, failed
    slices_after_stop,   \* sleeps that ended after stop() was called
    interval_minutes,    \* the local interval_minutes of run_continuous
    waited,              \* seconds slept since the last digest cycle returned
    \* ---- run_digest_cycle --------------------------------------------------
    cycle_count,         \* digest cycles run so far
    cycle_result,        \* the last digest cycle: variant, outcome, return value
    exports,             \* digest_<timestamp>.json files: the times written
    \* ---- main.py: the one-shot variant -------------------------------------
    one_pc,              \* position in main
    one_messages,        \* the messages collected
    one_digest,          \* digest_data
    one_facts,           \* what succeeded: the LLM call, the Markdown write
    one_sent,            \* the texts sent to the saved messages, in order
    one_status,          \* status the process exited with, NoStatus before
    \* ---- the gateway: one conversation fetch -------------------------------
    fetch,               \* the call in progress or returned
    fetch_count,         \* calls begun so far
    \* ---- the gateway: collection from the watchlist ------------------------
    watchlist,           \* the watchlist loaded: channels and chats
    collected            \* what collect_messages_from_watchlist returned

storageVars == <<cursors_file, backups, now, instance, last_op, saved, nops,
                 history_file, appended>>
digestVars == <<pc, filtered_messages, chat_messages, llm_raw, chat_digests,
                llm_calls, result>>
deliveryVars == <<delivered>>
backupDirVars == <<other_backups>>
lastDigestVars == <<last_digest_file>>
filterVars == <<processor, inbox, filter_result>>
botVars == <<bot_pc, args, exit_status, cli_result, running, stop_requested,
             interrupted, interval_numeric, sleep_seconds, config_file, config,
             last_config_load, components, connected, reloaded, last_cycle,
             slices_after_stop, interval_minutes, waited>>
cycleVars == <<cycle_count, cycle_result, exports>>
oneshotVars == <<one_pc, one_messages, one_digest, one_facts, one_sent, one_status>>
fetchVars == <<fetch, fetch_count>>
collectVars == <<watchlist, collected>>
lateVars == <<cycleVars, oneshotVars, fetchVars, collectVars>>
earlyVars == <<storageVars, digestVars, deliveryVars, backupDirVars, lastDigestVars,
               filterVars, botVars>>
notCycleVars == <<filterVars, botVars, oneshotVars, fetchVars, collectVars>>
notOneshotVars == <<cycleVars, fetchVars, collectVars>>
notFetchVars == <<cycleVars, oneshotVars, collectVars>>
notCollectVars == <<cycleVars, oneshotVars, fetchVars>>
extraVars == <<filterVars, botVars, lateVars>>
nonBotVars == <<storageVars, digestVars, deliveryVars, backupDirVars, lastDigestVars,
                filterVars, lateVars>>
appVars == <<deliveryVars, backupDirVars, lastDigestVars, extraVars>>
vars == <<storageVars, digestVars, appVars>>

(***************************************************************************)
(* Bounds of the model.                                                    *)
(***************************************************************************)
MaxCursorOps == 3       \* cursor operations per behaviour
MaxTime == 1            \* last clock value
MaxInstances == 2       \* StorageManager instances (restarts + 1)
MaxRuns == 103          \* save_digest_run calls per behaviour
MaxFailedRuns == 1      \* only the first MaxFailedRuns runs may have success = false
MaxMsgs == 3            \* filtered messages per generate_digest call
MaxJumps == 1           \* retention periods that may pass in one behaviour
MaxStatRuns == 2        \* save_digest_run calls before get_storage_stats
MaxBatch == 3           \* messages handed to one filter_messages call
MaxCycles == 3
MaxLossRuns == 4        \* save_digest_run calls where the history file may be damaged
MaxStamp == 2           \* latest timestamp of a collected message
MaxFetchMsgs == 3       \* messages the provider holds for one conversation
MaxFetches == 2         \* conversation fetches in one behaviour
MaxOneShot == 2         \* messages collected by the one-shot variant
MaxEdits == 2           \* edits of the configuration files in one behaviour
IntervalMinutes == 2    \* digest.interval_minutes when it is a number

\* storage.py:115  history = history[-100:]
HistoryCap == 100

\* storage.py:36  storage_config.get('backup_days', 30)
BackupDays == 30

\* seconds of a day (timedelta(days=...), storage.py:178)
Day == 86400

(***************************************************************************)
(* Generic helpers.                                                        *)
(***************************************************************************)
Min(a, b) == IF a <= b THEN a ELSE b

\* Python's seq[-n:] for n > 0: the last n elements (all of them when shorter).
LastN(s, n) == IF Len(s) <= n THEN s ELSE SubSeq(s, Len(s) - n + 1, Len(s))

EmptyMap == [k \in {} |-> 0]

(***************************************************************************)
(* JSON numbers: json.dump writes an int in decimal, json.load parses it.  *)
(***************************************************************************)
DigitChars == <<"0", "1", "2", "3", "4", "5", "6", "7", "8", "9">>

RECURSIVE NatToText(_)
NatToText(n) ==
    IF n < 10 THEN <<DigitChars[n + 1]>>
    ELSE NatToText(n \div 10) \o <<DigitChars[(n % 10) + 1]>>

\* mutant: the sign is not written
IntToText_NoSign(n) == NatToText(IF n < 0 THEN 0 - n ELSE n)

IntToText(n) == IF n < 0 THEN <<"-">> \o NatToText(0 - n) ELSE NatToText(n)

DigitValue(c) == CHOOSE d \in 0..9 : DigitChars[d + 1] = c

RECURSIVE TextToNat(_)
TextToNat(t) ==
    IF Len(t) = 1 THEN DigitValue(t[1])
    ELSE 10 * TextToNat(SubSeq(t, 1, Len(t) - 1)) + DigitValue(t[Len(t)])

TextToInt(t) == IF t[1] = "-" THEN 0 - TextToNat(Tail(t)) ELSE TextToNat(t)

(***************************************************************************)
(* Files of the data directory.                                            *)
(***************************************************************************)
NoFile == [exists |-> FALSE]
CorruptFile == [exists |-> TRUE, readable |-> FALSE]
FileWith(body) == [exists |-> TRUE, readable |-> TRUE, body |-> body]

\* json.dump(cursors, f): a flat object, key -> number text
DumpCursors(cursors) == [k \in DOMAIN cursors |-> IntToText(cursors[k])]
\* json.load(f) on such an object
ParseCursors(body) == [k \in DOMAIN body |-> TextToInt(body[k])]

CursorKeys == {"@test1", "@test2"}
CursorValues == {-1, 0, 12}
CursorMaps == UNION {[D -> CursorValues] : D \in SUBSET CursorKeys}

\* StorageManager.load_cursors: {} when the file is missing or cannot be read
load_cursors(file) ==
    IF file.exists
    THEN IF file.readable THEN ParseCursors(file.body) ELSE EmptyMap
    ELSE EmptyMap

\* The effect of save_cursors(cursors) on the data directory and its result.
\* fault: "none", "backup" (shutil.copy2 raises) or "write" (the dump raises
\* after open(.., 'w') truncated the file).
\* mutant: a backup of the same second is not overwritten
save_cursors_backups_KeepFirst(file, bk, t, fault) ==
    IF file.exists /\ fault # "backup"
    THEN [k \in DOMAIN bk \cup {t} |-> IF k \in DOMAIN bk THEN bk[k] ELSE file]
    ELSE bk

save_cursors_backups(file, bk, t, fault) ==
    IF file.exists /\ fault # "backup"
    THEN [k \in DOMAIN bk \cup {t} |-> IF k = t THEN file ELSE bk[k]]
    ELSE bk

save_cursors_file(file, cursors, fault) ==
    CASE fault = "backup" -> file
      [] fault = "write" -> CorruptFile
      [] OTHER -> FileWith(DumpCursors(cursors))

save_cursors_ok(fault) == fault = "none"

Faults(file) == IF file.exists THEN {"none", "backup", "write"} ELSE {"none", "write"}

\* mutant: cursors[chat_id] = 0 for every identifier given, present or not
reset_mapping_Insert(cursors, chat_identifiers) ==
    [k \in DOMAIN cursors \cup chat_identifiers |->
        IF k \in chat_identifiers THEN 0 ELSE cursors[k]]

\* reset_cursors: the mapping handed to save_cursors
reset_mapping(cursors, chat_identifiers) ==
    IF chat_identifiers # {}
    THEN [k \in DOMAIN cursors |-> IF k \in chat_identifiers THEN 0 ELSE cursors[k]]
    ELSE EmptyMap

NoOp == [op |-> "none"]
NoSave == [valid |-> FALSE]

(***************************************************************************)
(* StorageManager: cursor operations.                                      *)
(***************************************************************************)
SaveCursorsFrom(maps) ==
    /\ nops < MaxCursorOps
    /\ \E cursors \in maps, fault \in Faults(cursors_file) :
        /\ backups' = save_cursors_backups(cursors_file, backups, now, fault)
        /\ cursors_file' = save_cursors_file(cursors_file, cursors, fault)
        /\ last_op' = [op |-> "save_cursors", ret |-> save_cursors_ok(fault),
                       by |-> instance]
        /\ saved' = IF save_cursors_ok(fault)
                    THEN [valid |-> TRUE, cursors |-> cursors, by |-> instance]
                    ELSE NoSave
    /\ nops' = nops + 1
    /\ UNCHANGED <<now, instance, history_file, appended, digestVars, appVars>>

SaveCursors == SaveCursorsFrom(CursorMaps)

\* save_cursors with one of two mappings
SaveCursorsTwo ==
    SaveCursorsFrom({[k \in {"@test1"} |-> 12], [k \in {"@test2"} |-> -1]})

LoadCursors ==
    /\ nops < MaxCursorOps
    /\ last_op' = [op |-> "load_cursors", ret |-> load_cursors(cursors_file),
                   by |-> instance]
    /\ nops' = nops + 1
    /\ UNCHANGED <<cursors_file, backups, now, instance, saved, history_file,
                   appended, digestVars, appVars>>

ResetCursors ==
    /\ nops < MaxCursorOps
    /\ \E chat_identifiers \in SUBSET CursorKeys, fault \in Faults(cursors_file) :
        LET before == load_cursors(cursors_file)
            cursors == reset_mapping(before, chat_identifiers)
        IN  /\ backups' = save_cursors_backups(cursors_file, backups, now, fault)
            /\ cursors_file' = save_cursors_file(cursors_file, cursors, fault)
            /\ last_op' = [op |-> "reset_cursors", ids |-> chat_identifiers,
                           ret |-> save_cursors_ok(fault), by |-> instance]
    /\ saved' = NoSave
    /\ nops' = nops + 1
    /\ UNCHANGED <<now, instance, history_file, appended, digestVars, appVars>>

\* A new StorageManager over the same data directory (storage.py:32-48): the
\* directories exist already, no file is touched.
Restart ==
    /\ instance < MaxInstances
    /\ instance' = instance + 1
    /\ UNCHANGED <<cursors_file, backups, now, last_op, saved, nops,
                   history_file, appended, digestVars, appVars>>

Tick ==
    /\ now % Day < MaxTime
    /\ now' = now + 1
    /\ UNCHANGED <<cursors_file, backups, instance, last_op, saved, nops,
                   history_file, appended, digestVars, appVars>>

(***************************************************************************)
(* StorageManager: digest history.                                         *)
(***************************************************************************)
\* dataclasses.asdict(run), as json.dump writes it (every field is JSON-native)
asdict(run) ==
    [timestamp |-> run.timestamp, message_count |-> run.message_count,
     success |-> run.success]

\* DigestRun(**item)
DigestRunOf(item) ==
    [timestamp |-> item.timestamp, message_count |-> item.message_count,
     success |-> item.success]

\* DigestRun(**item) raises TypeError unless item has the fields of DigestRun
\* that have no default, and no other key
IsRunItem(item) == DOMAIN item = {"timestamp", "message_count", "success"}

\* mutant: an item that is no run record is skipped, the others are loaded
load_digest_history_Lenient(file) ==
    IF file.exists /\ file.readable
    THEN LET items == SelectSeq(file.body, IsRunItem)
         IN  [i \in 1..Len(items) |-> DigestRunOf(items[i])]
    ELSE <<>>

\* StorageManager.load_digest_history: [] when the file is missing, when it
\* does not parse, and when DigestRun(**item) raises for one of its items
load_digest_history(file) ==
    IF file.exists
    THEN IF file.readable /\ \A i \in 1..Len(file.body) : IsRunItem(file.body[i])
         THEN [i \in 1..Len(file.body) |-> DigestRunOf(file.body[i])]
         ELSE <<>>
    ELSE <<>>

\* mutant: history[:100], the oldest records are kept
save_digest_run_history_Oldest(file, digest_run) ==
    SubSeq(Append(load_digest_history(file), digest_run), 1,
           Min(HistoryCap, Len(load_digest_history(file)) + 1))

\* save_digest_run: the list written back to digest_history.json
save_digest_run_history(file, digest_run) ==
    LastN(Append(load_digest_history(file), digest_run), HistoryCap)

\* save_digest_run(digest_run)
SaveDigestRunWith(digest_run) ==
    LET history == save_digest_run_history(history_file, digest_run)
    IN  /\ history_file' = FileWith([i \in 1..Len(history) |-> asdict(history[i])])
        /\ appended' = Append(appended, digest_run)
        /\ last_op' = [op |-> "save_digest_run", arg |-> digest_run,
                       ret |-> TRUE, by |-> instance]
        /\ UNCHANGED <<cursors_file, backups, now, instance, saved, nops,
                       digestVars, appVars>>

SaveDigestRun ==
    /\ Len(appended) < MaxRuns
    /\ \E success \in BOOLEAN :
        /\ success \/ Len(appended) < MaxFailedRuns
        /\ SaveDigestRunWith([timestamp |-> now + Len(appended),
                              message_count |-> Len(appended),
                              success |-> success])

(***************************************************************************)
(* JSON values as Python sees them.                                        *)
(***************************************************************************)
JStr(chars) == [str |-> chars]
JInt(n) == [int |-> n]
JNull == [null |-> TRUE]
JList(seq) == [list |-> seq]
JDict(f) == [dict |-> f]

IsStr(j) == "str" \in DOMAIN j
IsInt(j) == "int" \in DOMAIN j
IsNull(j) == "null" \in DOMAIN j
IsList(j) == "list" \in DOMAIN j
IsDict(j) == "dict" \in DOMAIN j

\* bool(x)
Truthy(j) ==
    CASE IsStr(j) -> j.str # <<>>
      [] IsInt(j) -> j.int # 0
      [] IsList(j) -> j.list # <<>>
      [] IsDict(j) -> DOMAIN j.dict # {}
      [] OTHER -> FALSE

\* str(x), as str() and f-strings format a scalar
PyStr(j) ==
    CASE IsStr(j) -> j.str
      [] IsInt(j) -> IntToText(j.int)
      [] OTHER -> <<"N", "o", "n", "e">>

\* d.get(k)
DictGet(d, k) == IF k \in DOMAIN d THEN d[k] ELSE JNull

\* d[k] = v
DictPut(d, k, v) == [x \in DOMAIN d \cup {k} |-> IF x = k THEN v ELSE d[x]]

\* needle in haystack, for str
Contains(haystack, needle) ==
    \E i \in 1..(Len(haystack) - Len(needle) + 1) :
        SubSeq(haystack, i, i + Len(needle) - 1) = needle

\* str.lower() on the alphabet of the model
Lowers == <<"a", "b", "c", "d", "e", "f", "g", "h", "i", "j", "k", "l", "m",
           "n", "o", "p", "q", "r", "s", "t", "u", "v", "w", "x", "y", "z">>
Uppers == <<"A", "B", "C", "D", "E", "F", "G", "H", "I", "J", "K", "L", "M",
           "N", "O", "P", "Q", "R", "S", "T", "U", "V", "W", "X", "Y", "Z">>
LowerChar(c) ==
    IF \E i \in 1..Len(Uppers) : Uppers[i] = c
    THEN Lowers[CHOOSE i \in 1..Len(Uppers) : Uppers[i] = c]
    ELSE c
Lower(chars) == [i \in 1..Len(chars) |-> LowerChar(chars[i])]

RECURSIVE Flatten(_)
Flatten(seqs) == IF seqs = <<>> THEN <<>> ELSE Head(seqs) \o Flatten(Tail(seqs))

Indices(seq) == [i \in 1..Len(seq) |-> i]

(***************************************************************************)
(* DigestGenerator._validate_digest_schema                                 *)
(***************************************************************************)
required_fields ==
    <<"urgent", "decisions", "topics", "people_updates", "calendar",
      "unanswered_mentions">>
array_fields == <<"urgent", "decisions", "unanswered_mentions">>

missing_fields(data) == SelectSeq(required_fields, LAMBDA f : f \notin DOMAIN data)

\* errors of one of the plain array fields
array_field_errors(data, field) ==
    IF IsList(data[field]) THEN <<>>
    ELSE <<[kind |-> "must be an array", field |-> field]>>

element_ok(elem, k1, k2) ==
    IsDict(elem) /\ k1 \in DOMAIN elem.dict /\ k2 \in DOMAIN elem.dict

\* errors of topics, people_updates or calendar
object_array_errors(data, field, k1, k2) ==
    IF ~IsList(data[field])
    THEN <<[kind |-> "must be an array", field |-> field]>>
    ELSE LET items == data[field].list
             bad == SelectSeq(Indices(items),
                              LAMBDA i : ~element_ok(items[i], k1, k2))
         IN  [j \in 1..Len(bad) |->
                IF ~IsDict(items[bad[j]])
                THEN [kind |-> "must be an object", field |-> field,
                      index |-> bad[j] - 1]
                ELSE [kind |-> "missing required fields", field |-> field,
                      index |-> bad[j] - 1]]

validation_errors(data) ==
    IF missing_fields(data) # <<>>
    THEN <<[kind |-> "Missing required fields", fields |-> missing_fields(data)]>>
    ELSE   Flatten([i \in 1..Len(array_fields) |->
                        array_field_errors(data, array_fields[i])])
        \o object_array_errors(data, "topics", "topic", "summary")
        \o object_array_errors(data, "people_updates", "person", "update")
        \o object_array_errors(data, "calendar", "event", "date")

_validate_digest_schema(data) ==
    [valid |-> validation_errors(data) = <<>>, errors |-> validation_errors(data)]

(***************************************************************************)
(* DigestGenerator._fix_digest_schema                                      *)
(***************************************************************************)
\* digest_generator.py:294  message_text[:500]
SummaryLimit == 500

Ellipsis == <<".", ".", ".">>
Newline == <<"\n">>
General_Discussion == <<"G", "e", "n", "e", "r", "a", "l", " ", "D", "i", "s", "c", "u", "s", "s", "i", "o", "n">>
Urgent_found == <<"u", "r", "g", "e", "n", "t", " ", "f", "o", "u", "n", "d">>
Decision_found == <<"d", "e", "c", "i", "s", "i", "o", "n", " ", "f", "o", "u", "n", "d">>
Meeting_or_deadline == <<"m", "e", "e", "t", "i", "n", "g", " ", "o", "r", " ", "d", "e", "a", "d", "l", "i", "n", "e">>
Check_messages == <<"c", "h", "e", "c", "k", " ", "m", "e", "s", "s", "a", "g", "e", "s">>

\* the text extracted from data["messages"]
message_text(messages) ==
    Flatten([i \in 1..Len(messages) |->
        IF IsDict(messages[i]) /\ "text" \in DOMAIN messages[i].dict
        THEN PyStr(messages[i].dict["text"]) \o Newline
        ELSE <<>>])

\* the structure built when the backend answered {"messages": [...]}
fix_from_messages(messages) ==
    LET text == message_text(messages)
        low == Lower(text)
        summary == IF Len(text) > SummaryLimit
                   THEN SubSeq(text, 1, SummaryLimit) \o Ellipsis
                   ELSE text
    IN  [urgent |->
            JList(IF Contains(low, <<"u", "r", "g", "e", "n", "t">>)
                     \/ Contains(low, <<"a", "s", "a", "p">>)
                  THEN <<JStr(Urgent_found)>> ELSE <<>>),
         decisions |->
            JList(IF Contains(low, <<"d", "e", "c", "i", "s", "i", "o", "n">>)
                     \/ Contains(low, <<"d", "e", "c", "i", "d", "e", "d">>)
                  THEN <<JStr(Decision_found)>> ELSE <<>>),
         topics |->
            JList(<<JDict([topic |-> JStr(General_Discussion),
                           summary |-> JStr(summary),
                           participants |-> JList(<<>>)])>>),
         people_updates |-> JList(<<>>),
         calendar |->
            JList(IF Contains(low, <<"m", "e", "e", "t", "i", "n", "g">>)
                     \/ Contains(low, <<"d", "e", "a", "d", "l", "i", "n", "e">>)
                  THEN <<JDict([event |-> JStr(Meeting_or_deadline),
                                date |-> JStr(Check_messages),
                                time |-> JNull])>>
                  ELSE <<>>),
         unanswered_mentions |-> JList(<<>>)]

fixed_topic(topic) ==
    JDict([topic |-> JStr(PyStr(topic.dict["topic"])),
           summary |-> JStr(PyStr(topic.dict["summary"])),
           participants |->
               IF IsList(DictGet(topic.dict, "participants"))
               THEN topic.dict["participants"] ELSE JList(<<>>)])

fixed_update(update) ==
    JDict([person |-> JStr(PyStr(update.dict["person"])),
           update |-> JStr(PyStr(update.dict["update"]))])

fixed_event(event) ==
    JDict([event |-> JStr(PyStr(event.dict["event"])),
           date |-> JStr(PyStr(event.dict["date"])),
           time |-> IF Truthy(DictGet(event.dict, "time"))
                    THEN event.dict["time"] ELSE JNull])

\* the rebuilt element of one object-array field
fixed_element(field, elem) ==
    CASE field = "topics" -> fixed_topic(elem)
      [] field = "people_updates" -> fixed_update(elem)
      [] field = "calendar" -> fixed_event(elem)

\* the repaired value of one object-array field
fixed_object_array(data, field, k1, k2) ==
    IF field \notin DOMAIN data \/ ~IsList(DictGet(data, field))
    THEN JList(<<>>)
    ELSE LET items == data[field].list
             good == SelectSeq(Indices(items),
                               LAMBDA i : element_ok(items[i], k1, k2))
         IN  JList([j \in 1..Len(good) |-> fixed_element(field, items[good[j]])])

\* mutant: a mistyped field is kept as it is
fixed_array_NoReset(data, field) ==
    IF field \notin DOMAIN data THEN JList(<<>>) ELSE data[field]

\* the repaired value of one plain array field
fixed_array(data, field) ==
    IF field \notin DOMAIN data \/ ~IsList(DictGet(data, field))
    THEN JList(<<>>)
    ELSE data[field]

_fix_digest_schema(data) ==
    IF "messages" \in DOMAIN data /\ IsList(data["messages"])
    THEN fix_from_messages(data["messages"].list)
    ELSE [k \in DOMAIN data \cup {"urgent", "decisions", "unanswered_mentions",
                                  "topics", "people_updates", "calendar"} |->
            CASE k \in {"urgent", "decisions", "unanswered_mentions"} ->
                    fixed_array(data, k)
              [] k = "topics" ->
                    fixed_object_array(data, k, "topic", "summary")
              [] k = "people_updates" ->
                    fixed_object_array(data, k, "person", "update")
              [] k = "calendar" ->
                    fixed_object_array(data, k, "event", "date")
              [] OTHER -> data[k]]

(***************************************************************************)
(* DigestGenerator._combine_chat_digests                                   *)
(* chat_digests is the insertion-ordered dict of generate_digest: a        *)
(* sequence of [chat_name, structured_data, message_count,                 *)
(* validation_errors], one per conversation.                               *)
(***************************************************************************)
\* mutant: the blank after the marker is missing
prefixed_NoBlank(chat_name, item) ==
    JStr(<<"[">> \o chat_name \o <<"]">> \o PyStr(item))

\* f"[{chat_name}] {item}"
prefixed(chat_name, item) ==
    JStr(<<"[">> \o chat_name \o <<"]", " ">> \o PyStr(item))

\* copy = obj.copy(); copy["source_chat"] = chat_name
with_source_chat(chat_name, obj) ==
    JDict(DictPut(obj.dict, "source_chat", JStr(chat_name)))

\* the entry of combined[field] made from one item of a conversation
combined_entry(chat_name, field, item) ==
    IF field \in {"urgent", "decisions", "unanswered_mentions"}
    THEN prefixed(chat_name, item)
    ELSE with_source_chat(chat_name, item)

\* what one conversation adds to combined[field]
combined_part(chat, field) ==
    LET value == DictGet(chat.structured_data, field)
    IN  IF Truthy(value)
        THEN [j \in 1..Len(value.list) |-> combined_entry(chat.chat_name, field, value.list[j])]
        ELSE <<>>

combined_field(digests, field) ==
    JList(Flatten([i \in 1..Len(digests) |-> combined_part(digests[i], field)]))

_combine_chat_digests(digests) ==
    [urgent |-> combined_field(digests, "urgent"),
     decisions |-> combined_field(digests, "decisions"),
     topics |-> combined_field(digests, "topics"),
     people_updates |-> combined_field(digests, "people_updates"),
     calendar |-> combined_field(digests, "calendar"),
     unanswered_mentions |-> combined_field(digests, "unanswered_mentions")]

(***************************************************************************)
(* DigestGenerator._format_multi_chat_digest_text                          *)
(* The text is the sequence of its lines (the elements of `sections`).     *)
(***************************************************************************)
\* ', '.join(x) raises TypeError unless x is an iterable of str
join_raises(x) ==
    CASE IsList(x) -> \E i \in 1..Len(x.list) : ~IsStr(x.list[i])
      [] IsStr(x) -> FALSE
      [] IsDict(x) -> FALSE
      [] OTHER -> TRUE

join_error(x) ==
    IF IsList(x) THEN "sequence item: expected str instance"
    ELSE "can only join an iterable"

RECURSIVE JoinTexts(_)
JoinTexts(texts) ==
    IF texts = <<>> THEN <<>>
    ELSE IF Len(texts) = 1 THEN texts[1]
    ELSE texts[1] \o <<",", " ">> \o JoinTexts(Tail(texts))

\* ', '.join(x) for a list of str, or for a str (its characters)
join(x) ==
    IF IsList(x) THEN JoinTexts([i \in 1..Len(x.list) |-> x.list[i].str])
    ELSE JoinTexts([i \in 1..Len(x.str) |-> <<x.str[i]>>])

item_lines(title, value) ==
    IF Truthy(value)
    THEN <<[line |-> title]>>
         \o [j \in 1..Len(value.list) |-> [line |-> "item", text |-> PyStr(value.list[j])]]
         \o <<[line |-> ""]>>
    ELSE <<>>

calendar_lines(value) ==
    IF Truthy(value)
    THEN <<[line |-> "CALENDAR & DEADLINES"]>>
         \o [j \in 1..Len(value.list) |->
                LET event == value.list[j].dict
                    time_str == IF Truthy(DictGet(event, "time"))
                                THEN <<" ", "a", "t", " ">> \o PyStr(event["time"])
                                ELSE <<>>
                IN  [line |-> "event",
                     text |-> PyStr(event["event"]) \o <<" ", "-", " ">>
                              \o PyStr(event["date"]) \o time_str]]
         \o <<[line |-> ""]>>
    ELSE <<>>

topic_lines(value) ==
    IF Truthy(value)
    THEN <<[line |-> "KEY TOPICS DISCUSSED"]>>
         \o Flatten([j \in 1..Len(value.list) |->
                LET topic == value.list[j].dict
                    participants == IF Truthy(DictGet(topic, "participants"))
                                    THEN <<" ", "(">> \o join(topic["participants"]) \o <<")">>
                                    ELSE <<>>
                IN  <<[line |-> "topic", text |-> PyStr(topic["topic"]) \o participants],
                      [line |-> "summary", text |-> PyStr(topic["summary"])]>>])
         \o <<[line |-> ""]>>
    ELSE <<>>

people_lines(value) ==
    IF Truthy(value)
    THEN <<[line |-> "PEOPLE UPDATES"]>>
         \o [j \in 1..Len(value.list) |->
                LET update == value.list[j].dict
                IN  [line |-> "person",
                     text |-> PyStr(update["person"]) \o <<":", " ">> \o PyStr(update["update"])]]
         \o <<[line |-> ""]>>
    ELSE <<>>

has_content(structured_data) ==
    \E i \in 1..Len(required_fields) : Truthy(DictGet(structured_data, required_fields[i]))

chat_lines(chat) ==
    LET sd == chat.structured_data
    IN  <<[line |-> "chat", chat |-> chat.chat_name, count |-> chat.message_count]>>
        \o (IF ~has_content(sd)
            THEN <<[line |-> "No significant updates in this chat"]>>
            ELSE item_lines("URGENT ITEMS", DictGet(sd, "urgent"))
                 \o item_lines("REQUIRES YOUR RESPONSE", DictGet(sd, "unanswered_mentions"))
                 \o calendar_lines(DictGet(sd, "calendar"))
                 \o item_lines("DECISIONS MADE", DictGet(sd, "decisions"))
                 \o topic_lines(DictGet(sd, "topics"))
                 \o people_lines(DictGet(sd, "people_updates"))
                 \o <<[line |-> "---"]>>)

RECURSIVE SumCounts(_)
SumCounts(digests) ==
    IF digests = <<>> THEN 0 ELSE Head(digests).message_count + SumCounts(Tail(digests))

all_errors(digests) ==
    Flatten([i \in 1..Len(digests) |-> digests[i].validation_errors])

\* the topics whose participant list makes ', '.join raise
bad_participants(digests) ==
    Flatten([i \in 1..Len(digests) |->
        LET topics == DictGet(digests[i].structured_data, "topics")
        IN  IF Truthy(topics)
            THEN SelectSeq(
                    [j \in 1..Len(topics.list) |-> DictGet(topics.list[j].dict, "participants")],
                    LAMBDA x : Truthy(x) /\ join_raises(x))
            ELSE <<>>])

\* [raised, error] when rendering raises, [raised, text] otherwise
_format_multi_chat_digest_text(digests) ==
    IF bad_participants(digests) # <<>>
    THEN [raised |-> TRUE, error |-> join_error(bad_participants(digests)[1])]
    ELSE [raised |-> FALSE,
          text |-> <<[line |-> "Multi-Chat Digest"]>>
                   \o Flatten([i \in 1..Len(digests) |-> chat_lines(digests[i])])
                   \o <<[line |-> "Summary", messages |-> SumCounts(digests),
                         chats |-> Len(digests),
                         warnings |-> Len(all_errors(digests))]>>]

(***************************************************************************)
(* What the LLM layer can hand to generate_digest: a dict (both backends   *)
(* return a dict or raise, llm_providers.py:115-130, 237-263), or an       *)
(* exception.                                                              *)
(***************************************************************************)
Absent == [absent |-> TRUE]

Txt_a == JStr(<<"a">>)
Txt_b == JStr(<<"b">>)

GoodTopic ==
    JDict([topic |-> JStr(<<"t">>), summary |-> JStr(<<"s">>),
           participants |-> JList(<<JStr(<<"p">>), JStr(<<"q">>)>>)])
TopicWith(participants) ==
    JDict([topic |-> JStr(<<"t">>), summary |-> JStr(<<"s">>),
           participants |-> participants])
TopicNoParticipants == JDict([topic |-> JInt(12), summary |-> JNull])
TopicNoSummary == JDict([topic |-> JStr(<<"t">>)])

GoodUpdate == JDict([person |-> JStr(<<"p">>), update |-> JStr(<<"u">>)])
UpdateNoUpdate == JDict([person |-> JStr(<<"p">>)])

EventWithTime ==
    JDict([event |-> JStr(<<"e">>), date |-> JStr(<<"d">>), time |-> JStr(<<"9">>)])
EventNoTime == JDict([event |-> JStr(<<"e">>), date |-> JStr(<<"d">>)])
EventEmptyTime ==
    JDict([event |-> JStr(<<"e">>), date |-> JInt(12), time |-> JStr(<<>>)])
EventNoDate == JDict([event |-> JStr(<<"e">>)])

StringArrayValues ==
    {Absent, JNull, Txt_a, JList(<<>>), JList(<<Txt_a>>), JList(<<Txt_b, JNull>>)}
TopicsValues ==
    {Absent, Txt_a, JList(<<>>), JList(<<GoodTopic>>), JList(<<GoodTopic, Txt_a>>),
     JList(<<TopicNoSummary>>), JList(<<TopicNoParticipants>>),
     JList(<<TopicWith(JList(<<JNull>>))>>), JList(<<TopicWith(JInt(5))>>),
     JList(<<TopicWith(JStr(<<"p", "q">>))>>)}
PeopleValues ==
    {Absent, JNull, JList(<<>>), JList(<<GoodUpdate>>), JList(<<UpdateNoUpdate>>),
     JList(<<JInt(3), GoodUpdate>>)}
CalendarValues ==
    {Absent, Txt_a, JList(<<>>), JList(<<EventWithTime>>), JList(<<EventNoTime>>),
     JList(<<EventEmptyTime>>), JList(<<EventNoDate, EventWithTime>>)}

\* the dict with the given values, a field left out when its value is Absent
MakeDigest(u, d, t, p, c, m) ==
    LET all == [urgent |-> u, decisions |-> d, topics |-> t, people_updates |-> p,
                calendar |-> c, unanswered_mentions |-> m]
    IN  [k \in {f \in DOMAIN all : all[f] # Absent} |-> all[k]]

\* every combination of the field values above
AllDigests ==
    {MakeDigest(u, d, t, p, c, m) :
        u \in StringArrayValues, d \in StringArrayValues, t \in TopicsValues,
        p \in PeopleValues, c \in CalendarValues, m \in StringArrayValues}

\* {"messages": [...]}, the shape a confused backend answers with
MessagesValues ==
    {JNull, JList(<<>>),
     JList(<<JDict([text |-> JStr(<<"A", "S", "A", "P">>)]), JInt(3)>>),
     JList(<<JDict([text |-> JStr(<<"d", "e", "c", "i", "d", "e", "d">>)]),
             JDict([text |-> JStr(<<"d", "e", "a", "d", "l", "i", "n", "e">>)])>>),
     JList(<<JDict([role |-> Txt_a]), JDict([text |-> JInt(12)])>>)}
MessagesDigests ==
    {[messages |-> v] : v \in MessagesValues}
    \cup {DictPut(MakeDigest(JList(<<Txt_a>>), JList(<<>>), JList(<<>>), JList(<<>>),
                             JList(<<>>), JList(<<>>)), "messages", v) :
            v \in MessagesValues}

\* the fallback structure of a backend (llm_providers.py:123-130, 245-254)
FallbackDigests ==
    {MakeDigest(JList(<<Txt_a>>), JList(<<>>), JList(<<>>), JList(<<>>), JList(<<>>),
                JList(<<>>)),
     DictPut(DictPut(MakeDigest(JList(<<Txt_a>>), JList(<<>>), JList(<<>>), JList(<<>>),
                                JList(<<>>), JList(<<>>)),
                     "raw_response", Txt_b), "_error", Txt_a)}

\* The dicts generate_digest is run on: those that differ in one field from a
\* digest with content, every topics value next to a mistyped urgent field,
\* the {"messages": ...} shapes and the fallbacks.
BaseU == JList(<<Txt_a>>)
BaseD == JList(<<>>)
BaseT == JList(<<GoodTopic>>)
BaseP == JList(<<GoodUpdate>>)
BaseC == JList(<<EventWithTime>>)
BaseM == JList(<<Txt_b, JNull>>)

LLMDigests ==
    {MakeDigest(u, BaseD, BaseT, BaseP, BaseC, BaseM) : u \in StringArrayValues}
    \cup {MakeDigest(BaseU, d, BaseT, BaseP, BaseC, BaseM) : d \in StringArrayValues}
    \cup {MakeDigest(BaseU, BaseD, t, BaseP, BaseC, BaseM) : t \in TopicsValues}
    \cup {MakeDigest(BaseU, BaseD, BaseT, p, BaseC, BaseM) : p \in PeopleValues}
    \cup {MakeDigest(BaseU, BaseD, BaseT, BaseP, c, BaseM) : c \in CalendarValues}
    \cup {MakeDigest(JNull, BaseD, t, BaseP, BaseC, BaseM) : t \in TopicsValues}
    \cup MessagesDigests \cup FallbackDigests

LLMErrors == {"LLM API Error"}

LLMOutcomes ==
    {[raised |-> FALSE, data |-> d] : d \in LLMDigests}
    \cup {[raised |-> TRUE, error |-> e] : e \in LLMErrors}

(***************************************************************************)
(* DigestGenerator.generate_digest                                         *)
(***************************************************************************)
Chats == {<<"A">>, <<"B">>}

EmptyDigest ==
    [urgent |-> JList(<<>>), decisions |-> JList(<<>>), topics |-> JList(<<>>),
     people_updates |-> JList(<<>>), calendar |-> JList(<<>>),
     unanswered_mentions |-> JList(<<>>)]

NoResult == [returned |-> FALSE]
NoError == [none |-> TRUE]
ProviderInfo == [provider |-> "openai", model |-> "gpt-4.1"]

\* chat_messages: the chats of the messages, in first-encounter order, with
\* the number of messages of each
RECURSIVE group_by_chat(_, _)
group_by_chat(messages, groups) ==
    IF messages = <<>> THEN groups
    ELSE LET name == Head(messages)
             known == \E i \in 1..Len(groups) : groups[i].chat_name = name
         IN  group_by_chat(Tail(messages),
                IF known
                THEN [i \in 1..Len(groups) |->
                        IF groups[i].chat_name = name
                        THEN [groups[i] EXCEPT !.count = @ + 1]
                        ELSE groups[i]]
                ELSE Append(groups, [chat_name |-> name, count |-> 1]))

\* the entry of chat_digests built from what the LLM layer did for one chat
chat_digest(group, outcome) ==
    IF outcome.raised
    THEN [chat_name |-> group.chat_name,
          structured_data |-> EmptyDigest,
          message_count |-> group.count,
          validation_errors |-> <<[kind |-> "Failed to process", text |-> outcome.error]>>]
    ELSE LET validation_result == _validate_digest_schema(outcome.data)
         IN  [chat_name |-> group.chat_name,
              structured_data |-> IF validation_result.valid
                                  THEN outcome.data
                                  ELSE _fix_digest_schema(outcome.data),
              message_count |-> group.count,
              validation_errors |-> IF validation_result.valid
                                    THEN <<>> ELSE validation_result.errors]

\* mutant: no early return, the empty list goes through the per-chat path
empty_result_NoShortCircuit ==
    [returned |-> TRUE, success |-> TRUE,
     digest_text |-> [lines |-> _format_multi_chat_digest_text(<<>>).text],
     structured_data |-> _combine_chat_digests(<<>>),
     error_message |-> NoError,
     metadata |-> [message_count |-> 0]]

\* the DigestResult of the empty-input path
empty_result ==
    [returned |-> TRUE, success |-> TRUE,
     digest_text |-> [literal |-> "No new messages to digest."],
     structured_data |-> EmptyDigest,
     error_message |-> NoError,
     metadata |-> [message_count |-> 0]]

\* the DigestResult built after the per-chat loop
final_result(messages, groups, digests) ==
    LET combined_digest == _combine_chat_digests(digests)
        rendered == _format_multi_chat_digest_text(digests)
    IN  IF rendered.raised
        THEN [returned |-> TRUE, success |-> FALSE,
              digest_text |-> [literal |-> "Failed to generate digest due to error."],
              structured_data |-> EmptyMap,
              error_message |-> [text |-> rendered.error],
              metadata |-> [message_count |-> Len(messages)]]
        ELSE [returned |-> TRUE, success |-> TRUE,
              digest_text |-> [lines |-> rendered.text],
              structured_data |-> combined_digest,
              error_message |-> NoError,
              metadata |->
                [message_count |-> Len(messages),
                 llm_provider |-> ProviderInfo,
                 chat_count |-> Len(groups),
                 high_priority_count |-> 0,
                 validation_errors |-> all_errors(digests),
                 chat_details |->
                    [i \in 1..Len(digests) |->
                        [chat_name |-> digests[i].chat_name,
                         message_count |-> digests[i].message_count,
                         validation_errors |-> digests[i].validation_errors]]]]

\* generate_digest is called: the empty-input return, or the grouping by chat
StartDigest ==
    /\ pc = "idle"
    /\ \E n \in 0..MaxMsgs : \E messages \in [1..n -> Chats] :
        /\ filtered_messages' = messages
        /\ IF messages = <<>>
           THEN /\ result' = empty_result
                /\ pc' = "done"
                /\ chat_messages' = <<>>
           ELSE /\ result' = NoResult
                /\ pc' = "chats"
                /\ chat_messages' = group_by_chat(messages, <<>>)
    /\ llm_raw' = <<>>
    /\ chat_digests' = <<>>
    /\ llm_calls' = 0
    /\ UNCHANGED <<storageVars, appVars>>

\* one iteration of the per-chat loop: the LLM call, validation and repair
ProcessChatFrom(outcomes) ==
    /\ pc = "chats"
    /\ \E outcome \in outcomes :
        LET group == chat_messages[Len(chat_digests) + 1]
        IN  /\ llm_raw' = Append(llm_raw, outcome)
            /\ chat_digests' = Append(chat_digests, chat_digest(group, outcome))
    /\ llm_calls' = llm_calls + 1
    /\ pc' = IF Len(chat_digests) + 1 = Len(chat_messages) THEN "finish" ELSE "chats"
    /\ UNCHANGED <<filtered_messages, chat_messages, result, storageVars, appVars>>

ProcessChat == ProcessChatFrom(LLMOutcomes)

\* the same iteration, the LLM layer answering with any combination of the
\* field values
WideOutcomes ==
    {[raised |-> FALSE, data |-> d] :
        d \in AllDigests \cup MessagesDigests \cup FallbackDigests}

ProcessChatWide == ProcessChatFrom(WideOutcomes)

\* generate_digest is called with one message
StartDigestOne ==
    /\ pc = "idle"
    /\ \E chat \in Chats :
        /\ filtered_messages' = <<chat>>
        /\ chat_messages' = group_by_chat(<<chat>>, <<>>)
    /\ result' = NoResult
    /\ pc' = "chats"
    /\ llm_raw' = <<>>
    /\ chat_digests' = <<>>
    /\ llm_calls' = 0
    /\ UNCHANGED <<storageVars, appVars>>

\* after the loop: combination, rendering, metadata and the return
FinishDigest ==
    /\ pc = "finish"
    /\ result' = final_result(filtered_messages, chat_messages, chat_digests)
    /\ pc' = "done"
    /\ UNCHANGED <<filtered_messages, chat_messages, llm_raw, chat_digests,
                   llm_calls, storageVars, appVars>>

(***************************************************************************)
(* StorageManager.cleanup_old_backups.                                     *)
(* The clock counts seconds from 2024-01-01 00:00:00; a backup name holds  *)
(* strftime('%Y%m%d_%H%M%S') of the clock and cleanup parses it back.      *)
(***************************************************************************)
\* days of the months of 2024, January to April
DaysInMonth == <<31, 29, 31, 30>>

Pad2(n) == IF n < 10 THEN <<"0">> \o NatToText(n) ELSE NatToText(n)

\* month and day of the d-th day (from 0) counted from the first of month m
RECURSIVE DateOf(_, _)
DateOf(m, d) ==
    IF d < DaysInMonth[m] THEN [month |-> m, day |-> d + 1]
    ELSE DateOf(m + 1, d - DaysInMonth[m])

\* number of days from January 1st to the given date
RECURSIVE DayNumber(_, _)
DayNumber(month, day) ==
    IF month = 1 THEN day - 1
    ELSE DaysInMonth[month - 1] + DayNumber(month - 1, day)

\* datetime.strftime('%Y%m%d_%H%M%S')
strftime(t) ==
    LET date == DateOf(1, t \div Day)
        sec == t % Day
    IN  <<"2", "0", "2", "4">> \o Pad2(date.month) \o Pad2(date.day) \o <<"_">>
        \o Pad2(sec \div 3600) \o Pad2((sec % 3600) \div 60) \o Pad2(sec % 60)

IsDigit(c) == \E d \in 1..10 : DigitChars[d] = c

\* datetime.strptime(text, '%Y%m%d_%H%M%S'): ValueError unless the text is a
\* date and a time of day in this layout
strptime(text) ==
    IF /\ Len(text) = 15
       /\ text[9] = "_"
       /\ \A i \in (1..15) \ {9} : IsDigit(text[i])
    THEN LET year == TextToNat(SubSeq(text, 1, 4))
             month == TextToNat(SubSeq(text, 5, 6))
             day == TextToNat(SubSeq(text, 7, 8))
             hour == TextToNat(SubSeq(text, 10, 11))
             minute == TextToNat(SubSeq(text, 12, 13))
             second == TextToNat(SubSeq(text, 14, 15))
         IN  IF /\ year = 2024
                /\ month \in 1..Len(DaysInMonth)
                /\ day >= 1
                /\ hour < 24 /\ minute < 60 /\ second < 60
                /\ day <= DaysInMonth[month]
             THEN [ok |-> TRUE,
                   t |-> DayNumber(month, day) * Day + hour * 3600 + minute * 60 + second]
             ELSE [ok |-> FALSE]
    ELSE [ok |-> FALSE]

\* index of the first occurrence of sep in s, 0 when there is none
IndexOf(s, sep) ==
    IF Contains(s, sep)
    THEN CHOOSE i \in 1..(Len(s) - Len(sep) + 1) :
            /\ SubSeq(s, i, i + Len(sep) - 1) = sep
            /\ \A j \in 1..(i - 1) : SubSeq(s, j, j + Len(sep) - 1) # sep
    ELSE 0

\* s.split(sep)[0]
SplitFirst(s, sep) ==
    IF Contains(s, sep) THEN SubSeq(s, 1, IndexOf(s, sep) - 1) ELSE s

\* s.split(sep)[1], for an s that contains sep
SplitSecond(s, sep) ==
    SplitFirst(SubSeq(s, IndexOf(s, sep) + Len(sep), Len(s)), sep)

Backup_marker == <<"_", "b", "a", "c", "k", "u", "p", "_">>
Dot == <<".">>

\* the file_date cleanup_old_backups reads from a name holding "_backup_"
file_date(name) == strptime(SplitFirst(SplitSecond(name, Backup_marker), Dot))

\* mutant: the comparison is turned around
is_old_backup_Newer(name, is_file, t) ==
    /\ is_file
    /\ Contains(name, Backup_marker)
    /\ file_date(name).ok
    /\ file_date(name).t > t - BackupDays * Day

\* mutant: directories are not passed over
is_old_backup_AnyEntry(name, is_file, t) ==
    /\ Contains(name, Backup_marker)
    /\ file_date(name).ok
    /\ file_date(name).t < t - BackupDays * Day

\* whether cleanup_old_backups, run at time t, unlinks the entry
is_old_backup(name, is_file, t) ==
    /\ is_file
    /\ Contains(name, Backup_marker)
    /\ file_date(name).ok
    /\ file_date(name).t < t - BackupDays * Day

\* f"cursors_backup_{...}.json" (storage.py:70)
cursors_backup_name(t) ==
    <<"c", "u", "r", "s", "o", "r", "s", "_", "b", "a", "c", "k", "u", "p", "_">> \o strftime(t) \o <<".", "j", "s", "o", "n">>

\* What else may lie in backups/ at time t: files that are no backups, a
\* backup of another file, a directory as backup_all_data makes it.
OtherEntries(t) ==
    {[name |-> <<"n", "o", "t", "e", "s", ".", "t", "x", "t">>, is_file |-> TRUE, kind |-> "plain", made |-> t],
     [name |-> <<"c", "u", "r", "s", "o", "r", "s", "_", "b", "a", "c", "k", "u", "p", "_", "o", "l", "d", ".", "j", "s", "o", "n">>, is_file |-> TRUE, kind |-> "unstamped", made |-> t],
     [name |-> <<"x", "_", "b", "a", "c", "k", "u", "p", "_">>, is_file |-> TRUE, kind |-> "unstamped", made |-> t],
     [name |-> <<"a", "_", "b", "a", "c", "k", "u", "p", "_", "b", "_", "b", "a", "c", "k", "u", "p", "_">> \o strftime(t) \o <<".", "j", "s", "o", "n">>,
      is_file |-> TRUE, kind |-> "unstamped", made |-> t],
     [name |-> <<"h", "i", "s", "t", "o", "r", "y", "_", "b", "a", "c", "k", "u", "p", "_">> \o strftime(t) \o <<".", "j", "s", "o", "n">>,
      is_file |-> TRUE, kind |-> "stamped", made |-> t],
     [name |-> <<"f", "u", "l", "l", "_", "b", "a", "c", "k", "u", "p", "_">> \o strftime(t),
      is_file |-> FALSE, kind |-> "directory", made |-> t]}

\* files and directories appear in backups/
PutOtherEntries ==
    /\ other_backups = {}
    /\ other_backups' = OtherEntries(now)
    /\ UNCHANGED <<storageVars, digestVars, deliveryVars, lastDigestVars, extraVars>>

\* f"full_backup_{timestamp}"
full_backup_name(t) ==
    <<"f", "u", "l", "l", "_", "b", "a", "c", "k", "u", "p", "_">> \o strftime(t)

\* the *.json files of the data directory, by name
data_files(cursors, history, last_digest) ==
    {name \in {"cursors.json", "digest_history.json", "last_digest.json"} :
        \/ name = "cursors.json" /\ cursors.exists
        \/ name = "digest_history.json" /\ history.exists
        \/ name = "last_digest.json" /\ last_digest.exists}

\* backup_all_data(): backups/full_backup_<timestamp> is made with mkdir,
\* which raises when the directory is there already (a second call within the
\* same second); the *.json files of the data directory are copied into it
BackupAllData ==
    /\ nops < MaxCursorOps
    /\ LET entry == [name |-> full_backup_name(now), is_file |-> FALSE,
                     kind |-> "directory", made |-> now]
       IN  IF \E e \in other_backups : e.name = entry.name
           THEN /\ other_backups' = other_backups
                /\ last_op' = [op |-> "backup_all_data", raised |-> TRUE,
                               copied |-> {}, by |-> instance]
           ELSE /\ other_backups' = other_backups \cup {entry}
                /\ last_op' = [op |-> "backup_all_data", raised |-> FALSE,
                               copied |-> data_files(cursors_file, history_file,
                                                     last_digest_file),
                               by |-> instance]
    /\ nops' = nops + 1
    /\ UNCHANGED <<cursors_file, backups, now, instance, saved, history_file,
                   appended, digestVars, deliveryVars, lastDigestVars, extraVars>>

\* a retention period passes
PassDays ==
    /\ now < MaxJumps * BackupDays * Day
    /\ now' = now + BackupDays * Day
    /\ UNCHANGED <<cursors_file, backups, instance, last_op, saved, nops,
                   history_file, appended, digestVars, appVars>>

\* cleanup_old_backups(); fault "unlink": an unlink raises, whatever was
\* unlinked before stays unlinked (glob order) and the call returns False
CleanupOldBackups ==
    /\ nops < MaxCursorOps
    /\ \E fault \in {"none", "unlink"} :
        LET old_cursors == {t \in DOMAIN backups :
                              is_old_backup(cursors_backup_name(t), TRUE, now)}
            old_others == {e \in other_backups : is_old_backup(e.name, e.is_file, now)}
        IN  IF fault = "none"
            THEN /\ backups' = [t \in DOMAIN backups \ old_cursors |-> backups[t]]
                 /\ other_backups' = other_backups \ old_others
                 /\ last_op' = [op |-> "cleanup_old_backups", ret |-> TRUE,
                                by |-> instance]
            ELSE /\ (old_cursors # {} \/ old_others # {})
                 /\ \E gone_cursors \in SUBSET old_cursors, gone_others \in SUBSET old_others :
                      /\ (gone_cursors # old_cursors \/ gone_others # old_others)
                      /\ backups' = [t \in DOMAIN backups \ gone_cursors |-> backups[t]]
                      /\ other_backups' = other_backups \ gone_others
                 /\ last_op' = [op |-> "cleanup_old_backups", ret |-> FALSE,
                                by |-> instance]
    /\ nops' = nops + 1
    /\ UNCHANGED <<cursors_file, now, instance, saved, history_file, appended,
                   digestVars, deliveryVars, lastDigestVars, extraVars>>

(***************************************************************************)
(* StorageManager.get_last_run_time and get_storage_stats.                 *)
(* DigestRun.timestamp is a string; get_last_run_time reads it with        *)
(* datetime.fromisoformat.                                                 *)
(***************************************************************************)
\* datetime.isoformat() of a naive datetime without microseconds
isoformat(t) ==
    LET date == DateOf(1, t \div Day)
        sec == t % Day
    IN  <<"2", "0", "2", "4", "-">> \o Pad2(date.month) \o <<"-">> \o Pad2(date.day)
        \o <<"T">> \o Pad2(sec \div 3600) \o <<":">> \o Pad2((sec % 3600) \div 60)
        \o <<":">> \o Pad2(sec % 60)

UtcOffset == <<"+", "0", "0", ":", "0", "0">>

\* datetime.fromisoformat(text): a naive datetime, an aware one when the text
\* ends in a UTC offset, ValueError otherwise
fromisoformat(text) ==
    IF /\ Len(text) \in {19, 25}
       /\ text[5] = "-" /\ text[8] = "-" /\ text[11] = "T"
       /\ text[14] = ":" /\ text[17] = ":"
       /\ \A i \in (1..19) \ {5, 8, 11, 14, 17} : IsDigit(text[i])
       /\ Len(text) = 25 => SubSeq(text, 20, 25) = UtcOffset
    THEN LET year == TextToNat(SubSeq(text, 1, 4))
             month == TextToNat(SubSeq(text, 6, 7))
             day == TextToNat(SubSeq(text, 9, 10))
             hour == TextToNat(SubSeq(text, 12, 13))
             minute == TextToNat(SubSeq(text, 15, 16))
             second == TextToNat(SubSeq(text, 18, 19))
         IN  IF /\ year = 2024
                /\ month \in 1..Len(DaysInMonth)
                /\ day >= 1
                /\ hour < 24 /\ minute < 60 /\ second < 60
                /\ day <= DaysInMonth[month]
             THEN [ok |-> TRUE, aware |-> Len(text) = 25,
                   t |-> DayNumber(month, day) * Day + hour * 3600 + minute * 60 + second]
             ELSE [ok |-> FALSE]
    ELSE [ok |-> FALSE]

None == [none |-> TRUE]

\* get_last_run_time(): the parsed timestamp of the last successful run,
\* None when there is none or the timestamp does not parse
get_last_run_time(history) ==
    LET successful == SelectSeq(history, LAMBDA run : run.success)
    IN  IF successful = <<>> THEN None
        ELSE LET parsed == fromisoformat(successful[Len(successful)].timestamp)
             IN  IF parsed.ok THEN [t |-> parsed.t, aware |-> parsed.aware] ELSE None

\* get_storage_stats() at time t. File sizes are not modelled, so
\* directory_size_mb is left out; hours_since_last_run is kept as the
\* fraction seconds / 3600.
get_storage_stats(cursors, history, last_digest, backup_count, t) ==
    LET last_run == get_last_run_time(load_digest_history(history))
    IN  IF last_run # None /\ last_run.aware
        THEN [error |-> "can't subtract offset-naive and offset-aware datetimes"]
        ELSE [cursors_exist |-> cursors.exists,
              history_exist |-> history.exists,
              last_digest_exist |-> last_digest.exists,
              backup_count |-> backup_count,
              cursor_count |-> Cardinality(DOMAIN load_cursors(cursors)),
              history_count |-> Len(load_digest_history(history)),
              last_successful_run |->
                  IF last_run = None THEN None ELSE [text |-> isoformat(last_run.t)],
              hours_since_last_run |->
                  IF last_run = None THEN None
                  ELSE [seconds |-> t - last_run.t, per_hour |-> 3600]]

\* what a caller may put into DigestRun.timestamp at time t
TimestampTexts(t) ==
    {isoformat(t), isoformat(t) \o UtcOffset, <<"y", "e", "s", "t", "e", "r", "d", "a", "y">>}

\* save_digest_run with any of these timestamps
SaveDigestRunStamped ==
    /\ Len(appended) < MaxStatRuns
    /\ \E success \in BOOLEAN, timestamp \in TimestampTexts(now) :
        SaveDigestRunWith([timestamp |-> timestamp,
                           message_count |-> Len(appended),
                           success |-> success])

\* save_digest_run of a run made now
SaveDigestRunNow ==
    /\ Len(appended) < MaxLossRuns
    /\ \E success \in BOOLEAN :
        SaveDigestRunWith([timestamp |-> isoformat(now),
                           message_count |-> Len(appended),
                           success |-> success])

\* an item a DigestRun cannot be made of: a key DigestRun does not have
ForeignItem == [timestamp |-> <<>>, note |-> TRUE]

\* digest_history.json is damaged from outside the program: its text no
\* longer parses, or one more item is in the list that is no run record
DamageHistory ==
    /\ history_file.exists
    /\ history_file.readable
    /\ \A i \in 1..Len(history_file.body) : IsRunItem(history_file.body[i])
    /\ \/ history_file' = CorruptFile
       \/ history_file' = FileWith(Append(history_file.body, ForeignItem))
    /\ UNCHANGED <<cursors_file, backups, now, instance, last_op, saved, nops,
                   appended, digestVars, appVars>>

\* save_last_digest(digest_data)
SaveLastDigest ==
    /\ ~last_digest_file.exists
    /\ last_digest_file' = [exists |-> TRUE, readable |-> TRUE]
    /\ last_op' = [op |-> "save_last_digest", ret |-> TRUE, by |-> instance]
    /\ UNCHANGED <<cursors_file, backups, now, instance, saved, nops, history_file,
                   appended, digestVars, deliveryVars, backupDirVars, extraVars>>

GetStorageStats ==
    /\ nops < MaxCursorOps
    /\ last_op' = [op |-> "get_storage_stats",
                   ret |-> get_storage_stats(cursors_file, history_file,
                              last_digest_file,
                              Cardinality(DOMAIN backups) + Cardinality(other_backups),
                              now),
                   by |-> instance]
    /\ nops' = nops + 1
    /\ UNCHANGED <<cursors_file, backups, now, instance, saved, history_file,
                   appended, digestVars, appVars>>

(***************************************************************************)
(* archive/app.py: TelegramDigestBot.send_digest_to_telegram and           *)


(* _format_single_chat_digest, the per-conversation delivery filter.       *)
(***************************************************************************)
NoDelivery == <<[none |-> TRUE]>>

\* f"[{chat_name}]"
Marker(chat_name) == <<"[">> \o chat_name \o <<"]">>

\* s.replace(old, ""): every occurrence of old, left to right, is removed
RECURSIVE Replace(_, _)
Replace(s, old) ==
    IF Len(s) < Len(old) THEN s
    ELSE IF SubSeq(s, 1, Len(old)) = old
         THEN Replace(SubSeq(s, Len(old) + 1, Len(s)), old)
         ELSE <<Head(s)>> \o Replace(Tail(s), old)

\* copy = d.copy(); copy.pop(k, None)
DictDrop(d, k) == [x \in DOMAIN d \ {k} |-> d[x]]

\* the entries of a string field selected for chat_name, marker removed
filtered_strings(chat_name, value) ==
    IF Truthy(value)
    THEN LET selected == SelectSeq(value.list,
                            LAMBDA item : Contains(item.str, Marker(chat_name)))
         IN  JList([j \in 1..Len(selected) |->
                      JStr(Replace(selected[j].str, Marker(chat_name) \o <<" ">>))])
    ELSE JList(<<>>)

\* the elements of an object field selected for chat_name, source_chat removed
filtered_objects(chat_name, value) ==
    IF Truthy(value)
    THEN LET selected == SelectSeq(value.list,
                            LAMBDA obj : DictGet(obj.dict, "source_chat") = JStr(chat_name))
         IN  JList([j \in 1..Len(selected) |->
                      JDict(DictDrop(selected[j].dict, "source_chat"))])
    ELSE JList(<<>>)

\* chat_structured_data of _format_single_chat_digest
chat_structured_data(chat_name, structured_data) ==
    [k \in {"urgent", "decisions", "topics", "people_updates", "calendar",
            "unanswered_mentions"} |->
        IF k \in {"urgent", "decisions", "unanswered_mentions"}
        THEN filtered_strings(chat_name, DictGet(structured_data, k))
        ELSE filtered_objects(chat_name, DictGet(structured_data, k))]

\* ', '.join(topic['participants']) raises while the chat's text is rendered
single_chat_raises(data) ==
    \E j \in 1..Len(data["topics"].list) :
        LET participants == DictGet(data["topics"].list[j].dict, "participants")
        IN  Truthy(participants) /\ join_raises(participants)

\* send_digest_to_telegram for a successful digest with chat_details: one
\* message per chat, built from the combined structure
SendDigest ==
    /\ pc = "done"
    /\ result.success
    /\ filtered_messages # <<>>
    /\ UNCHANGED <<backupDirVars, lastDigestVars, extraVars>>
    /\ delivered' =
          [i \in 1..Len(result.metadata.chat_details) |->
              LET name == result.metadata.chat_details[i].chat_name
                  data == chat_structured_data(name, result.structured_data)
              IN  [chat_name |-> name,
                   chat_structured_data |-> data,
                   sent |-> ~single_chat_raises(data)]]
    /\ pc' = "sent"
    /\ UNCHANGED <<filtered_messages, chat_messages, llm_raw, chat_digests,
                   llm_calls, result, storageVars>>

\* answers whose entries carry a conversation marker
MarkerDigests ==
    {MakeDigest(JList(<<JStr(text)>>), BaseD, BaseT, BaseP, BaseC, JList(<<Txt_b>>)) :
        text \in {<<"[", "A", "]">>, <<"[", "B", "]", " ", "x">>}}

PlainDigest ==
    MakeDigest(BaseU, JList(<<Txt_b, Txt_a>>), BaseT, BaseP, BaseC, JList(<<Txt_b>>))

DeliveryOutcomes ==
    LLMOutcomes \cup {[raised |-> FALSE, data |-> d] : d \in MarkerDigests \cup {PlainDigest}}

ProcessChatDelivery == ProcessChatFrom(DeliveryOutcomes)

(***************************************************************************)
(* archive/src/message_processor.py: MessageProcessor, the filter that     *)
(* scores, gates and orders messages.  A text is a sequence of characters; *)
(* an emoji is one element of the sequence, written by its code point.     *)
(***************************************************************************)
\* filters.get('min_message_length', 10)
MinMessageLength == 10
\* the length from which a text with no other signal is kept
ReasonableLength == 20
\* digest_config.get('max_messages_per_chat', 100)
MaxMessagesPerChat == 100
\* the length above which a text earns the long-message boost
LongText == 50
Hour == 3600

\* \w of the re module: letters, digits and the underscore
IsWordChar(c) ==
    \/ \E i \in 1..Len(Lowers) : c = Lowers[i] \/ c = Uppers[i]
    \/ IsDigit(c)
    \/ c = "_"

\* \s of the re module
IsSpace(c) == c = " "

\* str.strip()
RECURSIVE lstrip(_)
lstrip(text) ==
    IF text # <<>> /\ IsSpace(Head(text)) THEN lstrip(Tail(text)) ELSE text

RECURSIVE rstrip(_)
rstrip(text) ==
    IF text # <<>> /\ IsSpace(text[Len(text)])
    THEN rstrip(SubSeq(text, 1, Len(text) - 1))
    ELSE text

strip(text) == rstrip(lstrip(text))

\* re.sub(r'[^\w\s]', '', text)
clean_text(text) == SelectSeq(text, LAMBDA c : IsWordChar(c) \/ IsSpace(c))

\* _is_emoji_only: len(clean_text) < len(text) * 0.3
_is_emoji_only(text) == Len(strip(clean_text(text))) * 10 < Len(text) * 3

keywords ==
    <<<<"u", "r", "g", "e", "n", "t">>, <<"i", "m", "p", "o", "r", "t", "a", "n",
        "t">>, <<"u", "p", "d", "a", "t", "e">>, <<"a", "n", "n", "o", "u", "n",
        "c", "e", "m", "e", "n", "t">>,
      <<"d", "e", "a", "d", "l", "i", "n", "e">>, <<"m", "e", "e", "t", "i", "n",
          "g">>, <<"c", "a", "l", "l">>, <<"e", "v", "e", "n", "t">>>>

_has_keywords(text) ==
    \E k \in 1..Len(keywords) : Contains(Lower(text), Lower(keywords[k]))

\* re.search(r'\$\d+', text)
dollar_amount(text) ==
    \E i \in 1..(Len(text) - 1) : text[i] = "$" /\ IsDigit(text[i + 1])

\* re.search(r'\d+\s*<unit>', text, re.IGNORECASE)
unit_amount(text, unit) ==
    \E i \in 1..Len(text), j \in 1..Len(text) :
        /\ IsDigit(text[i])
        /\ i < j
        /\ \A k \in (i + 1)..(j - 1) : IsSpace(text[k])
        /\ j + Len(unit) - 1 <= Len(text)
        /\ Lower(SubSeq(text, j, j + Len(unit) - 1)) = Lower(unit)

money_units == <<<<"U", "S", "D">>, <<"E", "T", "H">>, <<"P", "N", "K">>>>

_has_money_amounts(text) ==
    \/ dollar_amount(text)
    \/ \E k \in 1..Len(money_units) : unit_amount(text, money_units[k])

\* re.search of a pattern made of \d and literal characters; "d" stands for \d
digits_pattern(text, pattern) ==
    \E i \in 1..(Len(text) - Len(pattern) + 1) :
        \A k \in 1..Len(pattern) :
            IF pattern[k] = "d" THEN IsDigit(text[i + k - 1])
            ELSE text[i + k - 1] = pattern[k]

date_words == <<<<"t", "o", "d", "a", "y">>, <<"t", "o", "m", "o", "r", "r", "o",
        "w">>, <<"y", "e", "s", "t", "e", "r", "d", "a", "y">>, <<"n", "e", "x",
        "t", " ", "w", "e", "e", "k">>, <<"l", "a", "s", "t", " ", "w", "e", "e",
        "k">>>>

_has_dates(text) ==
    \/ digits_pattern(text, <<"d", "d", "d", "d", "-", "d", "d", "-", "d", "d">>)
    \/ digits_pattern(text, <<"d", "d", "/", "d", "d", "/", "d", "d", "d", "d">>)
    \/ \E k \in 1..Len(date_words) : Contains(Lower(text), date_words[k])

\* mutant: the minimum length is not checked
_is_message_relevant_NoMinLength(self, msg) ==
    IF self.exclude_emoji_only /\ _is_emoji_only(msg.text) THEN FALSE
    ELSE IF Contains(msg.text, <<"@">>) THEN TRUE
    ELSE IF _has_keywords(msg.text) THEN TRUE
    ELSE IF _has_money_amounts(msg.text) THEN TRUE
    ELSE IF _has_dates(msg.text) THEN TRUE
    ELSE IF msg.has_media THEN TRUE
    ELSE IF msg.is_reply THEN TRUE
    ELSE Len(strip(msg.text)) >= ReasonableLength

\* mutant: being a reply is not looked at
_is_message_relevant_NoReply(self, msg) ==
    IF Len(strip(msg.text)) < MinMessageLength THEN FALSE
    ELSE IF self.exclude_emoji_only /\ _is_emoji_only(msg.text) THEN FALSE
    ELSE IF Contains(msg.text, <<"@">>) THEN TRUE
    ELSE IF _has_keywords(msg.text) THEN TRUE
    ELSE IF _has_money_amounts(msg.text) THEN TRUE
    ELSE IF _has_dates(msg.text) THEN TRUE
    ELSE IF msg.has_media THEN TRUE
    ELSE Len(strip(msg.text)) >= ReasonableLength

\* _is_message_relevant, with the include_* options at their defaults
_is_message_relevant(self, msg) ==
    IF Len(strip(msg.text)) < MinMessageLength THEN FALSE
    ELSE IF self.exclude_emoji_only /\ _is_emoji_only(msg.text) THEN FALSE
    ELSE IF Contains(msg.text, <<"@">>) THEN TRUE
    ELSE IF _has_keywords(msg.text) THEN TRUE
    ELSE IF _has_money_amounts(msg.text) THEN TRUE
    ELSE IF _has_dates(msg.text) THEN TRUE
    ELSE IF msg.has_media THEN TRUE
    ELSE IF msg.is_reply THEN TRUE
    ELSE Len(strip(msg.text)) >= ReasonableLength

\* the recency part of the score; age is now - msg.timestamp in seconds
recency_score(age) ==
    IF age < Hour THEN 10
    ELSE IF age < 6 * Hour THEN 8
    ELSE IF age < 24 * Hour THEN 6
    ELSE IF age < 48 * Hour THEN 4
    ELSE 2

\* _calculate_priority_score for an aware timestamp; username <<>> stands for
\* None and for '', which the code treats alike
_calculate_priority_score(msg, username, t) ==
    recency_score(t - msg.timestamp)
    + (IF username # <<>> /\ Contains(Lower(msg.text), Lower(username)) THEN 5 ELSE 0)
    + (IF msg.is_reply THEN 2 ELSE 0)
    + (IF msg.has_media THEN 1 ELSE 0)
    + (IF Len(msg.text) > LongText THEN 1 ELSE 0)

\* datetime.now(timezone.utc) - msg.timestamp raises TypeError on a naive
\* timestamp
score_raises(msg) == ~msg.aware

\* the loop of filter_messages: every relevant message wrapped with its score
RECURSIVE relevant_messages(_, _, _, _)
relevant_messages(self, messages, username, t) ==
    IF messages = <<>> THEN <<>>
    ELSE LET msg == Head(messages)
             rest == relevant_messages(self, Tail(messages), username, t)
         IN  IF _is_message_relevant(self, msg)
             THEN <<[message |-> msg,
                     priority_score |-> _calculate_priority_score(msg, username, t)]>>
                  \o rest
             ELSE rest

\* one element put into a list sorted by descending score, behind the elements
\* of the same score
RECURSIVE insert_by_priority(_, _)
insert_by_priority(sorted, x) ==
    IF sorted = <<>> THEN <<x>>
    ELSE IF Head(sorted).priority_score >= x.priority_score
         THEN <<Head(sorted)>> \o insert_by_priority(Tail(sorted), x)
         ELSE <<x>> \o sorted

\* list.sort(key=priority_score, reverse=True): stable, highest first
RECURSIVE sort_by_priority(_)
sort_by_priority(list) ==
    IF list = <<>> THEN <<>>
    ELSE insert_by_priority(sort_by_priority(SubSeq(list, 1, Len(list) - 1)),
                            list[Len(list)])

\* _apply_chat_limits: the first max_messages_per_chat messages of each chat
_apply_chat_limits(messages) ==
    LET kept(i) ==
            Cardinality({j \in 1..(i - 1) :
                messages[j].message.chat_name = messages[i].message.chat_name})
                < MaxMessagesPerChat
    IN  SelectSeq([i \in 1..Len(messages) |-> [at |-> i, m |-> messages[i]]],
                  LAMBDA e : kept(e.at))

\* filter_messages(messages, username)
filter_messages(self, messages, username, t) ==
    IF messages = <<>> THEN [raised |-> FALSE, messages |-> <<>>]
    ELSE IF \E i \in 1..Len(messages) : score_raises(messages[i])
    THEN [raised |-> TRUE, messages |-> <<>>]
    ELSE LET limited == _apply_chat_limits(
                 sort_by_priority(
                     relevant_messages(self, messages, username, t)))
         IN  [raised |-> FALSE,
              messages |-> [i \in 1..Len(limited) |-> limited[i].m]]

\* the messages of the model, all of the chat "Test"
Testuser == <<"t", "e", "s", "t", "u", "s", "e", "r">>
Emoji == "U+1F44D"

TextMessage(message_id, text) ==
    [message_id |-> message_id, chat_name |-> "Test", text |-> text,
     is_reply |-> FALSE, has_media |-> FALSE, aware |-> TRUE]

ShortMsg == TextMessage(1, <<"H", "i">>)
PaddedMsg == TextMessage(2, <<" ", " ", " ", "H", "i", " ", "@", "b", "o", "b",
        " ", " ", " ">>)
EmojiMsg ==
    [TextMessage(3, [i \in 1..MinMessageLength |-> Emoji]) EXCEPT !.is_reply = TRUE]
KeywordMsg == TextMessage(4, <<"L", "e", "t", "'", "s", " ", "h", "a", "v", "e",
        " ", "a", " ", "m", "e", "e", "t", "i", "n", "g", " ", "n", "e", "x", "t",
        " ", "w", "e", "e", "k", " ", "a", "b", "o", "u", "t", " ", "t", "h", "e",
        " ", "p", "r", "o", "j", "e", "c", "t">>)
MentionMsg ==
    TextMessage(5, <<"@", "t", "e", "s", "t", "u", "s", "e", "r", " ", "u", "r",
        "g", "e", "n", "t", ":", " ", "n", "e", "e", "d", " ", "a", "p", "p", "r",
        "o", "v", "a", "l", " ", "f", "o", "r", " ", "$", "5", "0", ",", "0", "0",
        "0", " ", "b", "u", "d", "g", "e", "t", " ", "b", "y", " ", "F", "r", "i",
        "d", "a", "y", " ", "d", "e", "a", "d", "l", "i", "n", "e">>)
MoneyDateMsg == TextMessage(6, <<"B", "u", "d", "g", "e", "t", " ", "p", "r", "o",
        "p", "o", "s", "a", "l", " ", "c", "o", "s", "t", "s", " ", "$", "2", "5",
        ",", "0", "0", "0", " ", "d", "u", "e", " ", "t", "o", "m", "o", "r", "r",
        "o", "w">>)
NaiveMsg == [TextMessage(7, <<"D", "u", "e", " ", "2", "0", "2", "4", "-", "0",
        "1", "-", "0", "5", ",", " ", "1", "0", "0", " ", "U", "S",
        "D">>) EXCEPT !.aware = FALSE]

\* the message as the gateway delivers it at time t
stamped(msg, t) ==
    [message_id |-> msg.message_id, chat_name |-> msg.chat_name, text |-> msg.text,
     is_reply |-> msg.is_reply, has_media |-> msg.has_media, aware |-> msg.aware,
     timestamp |-> t]

IncomingMessages ==
    {ShortMsg, PaddedMsg, EmojiMsg, KeywordMsg, MentionMsg, MoneyDateMsg, NaiveMsg}

\* messages that carry one signal each: an "@", media, or being a reply
MidMentionMsg == TextMessage(8, <<"@", "b", "o", "b", " ", "h", "e", "l", "l", "o", "!">>)
MidMediaMsg == [TextMessage(9, <<"n", "i", "c", "e", " ", "p", "i", "c", "t", "u", "r", "e">>) EXCEPT !.has_media = TRUE]
MidReplyMsg == [TextMessage(10, <<"o", "k", ",", " ", "w", "i", "l", "l", " ", "d", "o">>) EXCEPT !.is_reply = TRUE]
PlainMidMsg == TextMessage(11, <<"n", "o", "t", "h", "i", "n", "g", " ", "m", "u", "c", "h">>)
ShortMediaMsg == [TextMessage(12, <<"p", "i", "c">>) EXCEPT !.has_media = TRUE]
ShortReplyMsg == [TextMessage(13, <<"o", "k">>) EXCEPT !.is_reply = TRUE]

SignalMessages ==
    {PaddedMsg, EmojiMsg, MidMentionMsg, MidMediaMsg, MidReplyMsg, PlainMidMsg,
     ShortMediaMsg, ShortReplyMsg}

NoFilterResult ==
    [called |-> FALSE, username |-> <<>>, raised |-> FALSE, messages |-> <<>>]

\* MessageProcessor(config): exclude_emoji_only comes from the configuration
ConfigureProcessor ==
    /\ inbox = <<>>
    /\ ~filter_result.called
    /\ processor.exclude_emoji_only
    /\ processor' = [exclude_emoji_only |-> FALSE]
    /\ UNCHANGED <<inbox, filter_result, storageVars, digestVars, deliveryVars,
                   backupDirVars, lastDigestVars, botVars, lateVars>>

\* the gateway hands over one more message, stamped with the current time
ReceiveMessage ==
    /\ Len(inbox) < MaxBatch
    /\ \E msg \in IncomingMessages :
        inbox' = Append(inbox, stamped(msg, now))
    /\ filter_result' = NoFilterResult
    /\ UNCHANGED <<processor, storageVars, digestVars, deliveryVars,
                   backupDirVars, lastDigestVars, botVars, lateVars>>

\* the gateway hands over one of the one-signal messages; a conversation's
\* messages arrive in the order of their ids
ReceiveSignalMessage ==
    /\ Len(inbox) < MaxBatch
    /\ \E msg \in SignalMessages :
        /\ inbox # <<>> => inbox[Len(inbox)].message_id < msg.message_id
        /\ inbox' = Append(inbox, stamped(msg, now))
    /\ filter_result' = NoFilterResult
    /\ UNCHANGED <<processor, storageVars, digestVars, deliveryVars,
                   backupDirVars, lastDigestVars, botVars, lateVars>>

\* filtered = processor.filter_messages(inbox, username)
FilterMessages ==
    /\ ~filter_result.called
    /\ \E username \in {Testuser, <<>>} :
        LET ret == filter_messages(processor, inbox, username, now)
        IN  filter_result' = [called |-> TRUE, username |-> username,
                              raised |-> ret.raised, messages |-> ret.messages]
    /\ UNCHANGED <<inbox, processor, storageVars, digestVars, deliveryVars,
                   backupDirVars, lastDigestVars, botVars, lateVars>>

(***************************************************************************)
(* app.py: main() and TelegramDigestBot.  The coroutine is cut at the      *)
(* calls it awaits; between two of them its code runs without interruption.*)
(* A configuration is named by the version of the files it was read from,  *)
(* a component by the version of the configuration it was built from; 0    *)
(* stands for None.                                                        *)
(***************************************************************************)
\* asyncio.sleep(min(60, sleep_seconds)) and the pause after an exception
Slice == 60
\* no sys.exit yet
NoStatus == -1

ComponentNames == {"storage", "telegram_client", "message_processor", "digest_generator"}
NoComponents == [c \in ComponentNames |-> 0]
NoArgs == [stats |-> FALSE, reset_cursors |-> FALSE, once |-> FALSE]

\* where initialize_components may stop: StorageManager(config) raises,
\* telegram_client.connect() or load_watchlist raises, DigestGenerator(config)
\* raises, validate_config() is false, or nothing fails
InitOutcomes == {"storage_raises", "connect_raises", "generator_raises", "invalid_llm", "ok"}

\* the components after initialize_components ran on configuration cfg: each
\* assignment made before the exception stays
initialized(comps, cfg, outcome) ==
    LET built == CASE outcome = "storage_raises" -> {}
                   [] outcome = "connect_raises" -> {"storage", "telegram_client"}
                   [] outcome = "generator_raises" ->
                        {"storage", "telegram_client", "message_processor"}
                   [] OTHER -> ComponentNames
    IN  [c \in ComponentNames |-> IF c \in built THEN cfg ELSE comps[c]]

\* whether telegram_client.connect() returned
connects(outcome) == outcome \in {"generator_raises", "invalid_llm", "ok"}

\* should_reload_config(): a file is newer than the last load, unless
\* os.path.getmtime raises
should_reload_config(file, last_load, mtime_ok) ==
    IF last_load = 0 THEN TRUE
    ELSE IF ~mtime_ok THEN FALSE
    ELSE file > last_load

\* mutant: a failed reset still exits 0
reset_exit_status_Zero(success) == 0

\* sys.exit(0 if success else 1)
reset_exit_status(success) == IF success THEN 0 ELSE 1

\* mutant: the handler of run_continuous leaves the loop
after_exception_Break == "exited"

\* except Exception in run_continuous: await asyncio.sleep(60), then the loop
\* goes on
after_exception == "pause"

\* digest.interval_minutes in the configuration files of version cfg: every
\* edit changes it
interval_in(cfg) == IntervalMinutes * cfg

\* mutant: the interval is read again from the configuration in use
wait_seconds_Reread(minutes, cfg) == interval_in(cfg) * 60

\* sleep_seconds = interval_minutes * 60, interval_minutes being the local
\* variable run_continuous set when it started
wait_seconds(minutes, cfg) == minutes * 60

\* the points at which run_continuous is suspended in an awaited call
AwaitPcs == {"reload_cleanup", "reload_init", "cycle", "sleep", "pause"}

\* args = parser.parse_args(); bot = TelegramDigestBot(...)
ParseArgs ==
    /\ bot_pc = "start"
    /\ \E a \in [stats : BOOLEAN, reset_cursors : BOOLEAN, once : BOOLEAN] : args' = a
    /\ bot_pc' = "parsed"
    /\ UNCHANGED <<exit_status, cli_result, running, stop_requested, interrupted,
                   interval_numeric, interval_minutes, sleep_seconds, config_file,
                   config, last_config_load, components, connected, reloaded,
                   last_cycle, slices_after_stop, waited, nonBotVars>>

\* if not bot.load_config(): sys.exit(1)
LoadConfigMain ==
    /\ bot_pc = "parsed"
    /\ \E loaded \in BOOLEAN, config_read \in BOOLEAN :
        /\ loaded => config_read
        /\ config' = IF config_read THEN config_file ELSE config
        /\ last_config_load' = IF loaded THEN config_file ELSE last_config_load
        /\ bot_pc' = IF loaded THEN "commands" ELSE "exited"
        /\ exit_status' = IF loaded THEN exit_status ELSE 1
        /\ cli_result' = IF loaded THEN cli_result ELSE "load_failed"
    /\ UNCHANGED <<args, running, stop_requested, interrupted, interval_numeric,
                   interval_minutes, sleep_seconds, config_file, components,
                   connected, reloaded, last_cycle, slices_after_stop, waited,
                   nonBotVars>>

\* if args.stats: the storage is built, the statistics printed, sys.exit(0);
\* an exception of StorageManager(config) ends the process with status 1
StatsCommand ==
    /\ bot_pc = "commands"
    /\ args.stats
    /\ \E built \in BOOLEAN :
        /\ components' = IF built THEN [components EXCEPT !.storage = config]
                         ELSE components
        /\ exit_status' = IF built THEN 0 ELSE 1
        /\ cli_result' = IF built THEN "stats_printed" ELSE "storage_raised"
    /\ bot_pc' = "exited"
    /\ UNCHANGED <<args, running, stop_requested, interrupted, interval_numeric,
                   interval_minutes, sleep_seconds, config_file, config,
                   last_config_load, connected, reloaded, last_cycle,
                   slices_after_stop, waited, nonBotVars>>

\* if args.reset_cursors is not None: success = bot.storage.reset_cursors(...)
ResetCursorsCommand ==
    /\ bot_pc = "commands"
    /\ ~args.stats
    /\ args.reset_cursors
    /\ \E built \in BOOLEAN, success \in BOOLEAN :
        /\ components' = IF built THEN [components EXCEPT !.storage = config]
                         ELSE components
        /\ exit_status' = IF built THEN reset_exit_status(success) ELSE 1
        /\ cli_result' = IF ~built THEN "storage_raised"
                         ELSE IF success THEN "reset_ok" ELSE "reset_failed"
    /\ bot_pc' = "exited"
    /\ UNCHANGED <<args, running, stop_requested, interrupted, interval_numeric,
                   interval_minutes, sleep_seconds, config_file, config,
                   last_config_load, connected, reloaded, last_cycle,
                   slices_after_stop, waited, nonBotVars>>

\* if not await bot.initialize_components(): sys.exit(1), and the finally
\* clause disconnects
InitializeMain ==
    /\ bot_pc = "commands"
    /\ ~args.stats
    /\ ~args.reset_cursors
    /\ \E outcome \in InitOutcomes :
        /\ components' = initialized(components, config, outcome)
        /\ connected' = (outcome = "ok")
        /\ bot_pc' = IF outcome # "ok" THEN "exited"
                     ELSE IF args.once THEN "once_cycle" ELSE "run"
        /\ exit_status' = IF outcome # "ok" THEN 1 ELSE exit_status
    /\ UNCHANGED <<args, cli_result, running, stop_requested, interrupted,
                   interval_numeric, interval_minutes, sleep_seconds, config_file,
                   config, last_config_load, reloaded, last_cycle,
                   slices_after_stop, waited, nonBotVars>>

\* success = await bot.run_once(); sys.exit(0 if success else 1)
RunOnce ==
    /\ bot_pc = "once_cycle"
    /\ \E success \in BOOLEAN :
        /\ last_cycle' = IF success THEN "ok" ELSE "failed"
        /\ exit_status' = IF success THEN 0 ELSE 1
    /\ connected' = FALSE
    /\ bot_pc' = "exited"
    /\ UNCHANGED <<args, cli_result, running, stop_requested, interrupted,
                   interval_numeric, interval_minutes, sleep_seconds, config_file,
                   config, last_config_load, components, reloaded,
                   slices_after_stop, waited, nonBotVars>>

\* run_continuous up to its loop: self.running = True and interval_minutes is
\* read; the value in the file is a number or is not one
StartContinuous ==
    /\ bot_pc = "run"
    /\ running' = TRUE
    /\ \E numeric \in BOOLEAN : interval_numeric' = numeric
    /\ interval_minutes' = interval_in(config)
    /\ bot_pc' = "loop_top"
    /\ UNCHANGED <<args, exit_status, cli_result, stop_requested, interrupted,
                   sleep_seconds, config_file, config, last_config_load, components,
                   connected, reloaded, last_cycle, slices_after_stop, waited,
                   nonBotVars>>

\* while self.running is false: run_continuous returns, main disconnects
ExitLoop ==
    /\ bot_pc = "loop_top"
    /\ ~running
    /\ bot_pc' = "exited"
    /\ exit_status' = 0
    /\ connected' = FALSE
    /\ UNCHANGED <<args, cli_result, running, stop_requested, interrupted,
                   interval_numeric, interval_minutes, sleep_seconds, config_file,
                   config, last_config_load, components, reloaded, last_cycle,
                   slices_after_stop, waited, nonBotVars>>

\* no reload is due: await self.run_digest_cycle() begins
StartCycle ==
    /\ bot_pc = "loop_top"
    /\ running
    /\ \E mtime_ok \in BOOLEAN :
        ~should_reload_config(config_file, last_config_load, mtime_ok)
    /\ reloaded' = FALSE
    /\ bot_pc' = "cycle"
    /\ UNCHANGED <<args, exit_status, cli_result, running, stop_requested,
                   interrupted, interval_numeric, interval_minutes, sleep_seconds,
                   config_file, config, last_config_load, components, connected,
                   last_cycle, slices_after_stop, waited, nonBotVars>>

\* a reload is due and load_config() succeeds: await self.cleanup() begins
ReloadConfig ==
    /\ bot_pc = "loop_top"
    /\ running
    /\ should_reload_config(config_file, last_config_load, TRUE)
    /\ config' = config_file
    /\ last_config_load' = config_file
    /\ reloaded' = TRUE
    /\ bot_pc' = "reload_cleanup"
    /\ UNCHANGED <<args, exit_status, cli_result, running, stop_requested,
                   interrupted, interval_numeric, interval_minutes, sleep_seconds,
                   config_file, components, connected, last_cycle,
                   slices_after_stop, waited, nonBotVars>>

\* a reload is due and load_config() fails, having read the main file or not:
\* the digest cycle begins with the components as they are
ReloadFails ==
    /\ bot_pc = "loop_top"
    /\ running
    /\ should_reload_config(config_file, last_config_load, TRUE)
    /\ \E config_read \in BOOLEAN :
        config' = IF config_read THEN config_file ELSE config
    /\ reloaded' = FALSE
    /\ bot_pc' = "cycle"
    /\ UNCHANGED <<args, exit_status, cli_result, running, stop_requested,
                   interrupted, interval_numeric, interval_minutes, sleep_seconds,
                   config_file, last_config_load, components, connected, last_cycle,
                   slices_after_stop, waited, nonBotVars>>

\* await self.cleanup() returns
ReloadCleanup ==
    /\ bot_pc = "reload_cleanup"
    /\ connected' = FALSE
    /\ bot_pc' = "reload_init"
    /\ UNCHANGED <<args, exit_status, cli_result, running, stop_requested,
                   interrupted, interval_numeric, interval_minutes, sleep_seconds,
                   config_file, config, last_config_load, components, reloaded,
                   last_cycle, slices_after_stop, waited, nonBotVars>>

\* await self.initialize_components() returns, its result is not looked at,
\* and await self.run_digest_cycle() begins
ReloadInit ==
    /\ bot_pc = "reload_init"
    /\ \E outcome \in InitOutcomes :
        /\ components' = initialized(components, config, outcome)
        /\ connected' = connects(outcome)
    /\ bot_pc' = "cycle"
    /\ UNCHANGED <<args, exit_status, cli_result, running, stop_requested,
                   interrupted, interval_numeric, interval_minutes, sleep_seconds,
                   config_file, config, last_config_load, reloaded, last_cycle,
                   slices_after_stop, waited, nonBotVars>>

\* run_digest_cycle returns True or False (it catches every Exception), old
\* backups are pruned, and the wait begins; interval_minutes * 60 > 0 raises
\* TypeError when the interval is not a number
CycleReturns ==
    /\ bot_pc = "cycle"
    /\ \E success \in BOOLEAN : last_cycle' = IF success THEN "ok" ELSE "failed"
    /\ IF ~interval_numeric
       THEN /\ bot_pc' = after_exception
            /\ exit_status' = IF after_exception = "exited" THEN 0 ELSE exit_status
            /\ UNCHANGED sleep_seconds
       ELSE /\ sleep_seconds' = wait_seconds(interval_minutes, config)
            /\ bot_pc' = IF running THEN "sleep" ELSE "loop_top"
            /\ UNCHANGED exit_status
    /\ waited' = 0
    /\ UNCHANGED <<args, cli_result, running, stop_requested, interrupted,
                   interval_numeric, interval_minutes, config_file, config,
                   last_config_load, components, connected, reloaded,
                   slices_after_stop, nonBotVars>>

\* one await asyncio.sleep(min(60, sleep_seconds)) returns
SleepSlice ==
    /\ bot_pc = "sleep"
    /\ sleep_seconds' = sleep_seconds - Slice
    /\ bot_pc' = IF sleep_seconds' > 0 /\ running THEN "sleep" ELSE "loop_top"
    /\ slices_after_stop' = IF stop_requested THEN slices_after_stop + 1
                            ELSE slices_after_stop
    /\ waited' = waited + Min(Slice, sleep_seconds)
    /\ UNCHANGED <<args, exit_status, cli_result, running, stop_requested,
                   interrupted, interval_numeric, interval_minutes, config_file,
                   config, last_config_load, components, connected, reloaded,
                   last_cycle, nonBotVars>>

\* the await asyncio.sleep(60) of the exception handler returns
Pause ==
    /\ bot_pc = "pause"
    /\ bot_pc' = "loop_top"
    /\ slices_after_stop' = IF stop_requested THEN slices_after_stop + 1
                            ELSE slices_after_stop
    /\ waited' = waited + Slice
    /\ UNCHANGED <<args, exit_status, cli_result, running, stop_requested,
                   interrupted, interval_numeric, interval_minutes, sleep_seconds,
                   config_file, config, last_config_load, components, connected,
                   reloaded, last_cycle, nonBotVars>>

\* stop(), called by another task while run_continuous is suspended
Stop ==
    /\ bot_pc \in AwaitPcs
    /\ ~stop_requested
    /\ running' = FALSE
    /\ stop_requested' = TRUE
    /\ UNCHANGED <<bot_pc, args, exit_status, cli_result, interrupted,
                   interval_numeric, interval_minutes, sleep_seconds, config_file,
                   config, last_config_load, components, connected, reloaded,
                   last_cycle, slices_after_stop, waited, nonBotVars>>

\* KeyboardInterrupt raised in the awaited call: the loop is left and main
\* disconnects
Interrupt ==
    /\ bot_pc \in AwaitPcs
    /\ interrupted' = TRUE
    /\ running' = FALSE
    /\ connected' = FALSE
    /\ exit_status' = 0
    /\ bot_pc' = "exited"
    /\ UNCHANGED <<args, cli_result, stop_requested, interval_numeric,
                   interval_minutes, sleep_seconds, config_file, config,
                   last_config_load, components, reloaded, last_cycle,
                   slices_after_stop, waited, nonBotVars>>

\* the operator edits config.yaml or watchlist.yml
EditConfig ==
    /\ bot_pc \in AwaitPcs
    /\ config_file <= MaxEdits
    /\ config_file' = config_file + 1
    /\ UNCHANGED <<bot_pc, args, exit_status, cli_result, running, stop_requested,
                   interrupted, interval_numeric, interval_minutes, sleep_seconds,
                   config, last_config_load, components, connected, reloaded,
                   last_cycle, slices_after_stop, waited, nonBotVars>>

(***************************************************************************)
(* Initial state: a fresh data directory, no generate_digest call made.    *)
(***************************************************************************)
(***************************************************************************)
(* TelegramDigestBot.run_digest_cycle of src/app.py and of                 *)
(* src/archive/app.py: what a digest cycle leaves in the data directory.   *)
(***************************************************************************)
CycleOutcomes ==
    {"no_messages", "nothing_filtered", "collect_raises", "digest_failed",
     "send_raises", "export_raises", "ok"}

NoCycle == [variant |-> "none", outcome |-> "none", synthesized |-> FALSE,
            ret |-> FALSE, at |-> 0]

\* generate_digest returned a DigestResult with success = True
synthesizes(outcome) == outcome \in {"send_raises", "export_raises", "ok"}

\* the value run_digest_cycle returns
cycle_returns(outcome) == outcome \in {"no_messages", "nothing_filtered", "ok"}

\* last_digest.json as save_last_digest writes it at time t
snapshot(t) == [exists |-> TRUE, readable |-> TRUE, generated_at |-> isoformat(t)]

\* run_digest_cycle of src/app.py: collect, filter, generate_digest,
\* save_last_digest, send, export_digest_json. Every exception is caught.
\* digest_history.json is not written: save_digest_run is not called.
RunDigestCycle ==
    /\ cycle_count < MaxCycles
    /\ \E outcome \in CycleOutcomes, send_to_saved_messages \in BOOLEAN,
          include_json_attachment \in BOOLEAN :
        /\ outcome = "send_raises" => send_to_saved_messages
        /\ outcome = "export_raises" => include_json_attachment
        /\ last_digest_file' =
               IF synthesizes(outcome) THEN snapshot(now) ELSE last_digest_file
        /\ exports' = IF outcome = "ok" /\ include_json_attachment
                      THEN exports \cup {now} ELSE exports
        /\ cycle_result' = [variant |-> "app", outcome |-> outcome,
                            synthesized |-> synthesizes(outcome),
                            ret |-> cycle_returns(outcome), at |-> now]
    /\ cycle_count' = cycle_count + 1
    /\ UNCHANGED <<storageVars, digestVars, deliveryVars, backupDirVars,
                   notCycleVars>>

\* run_digest_cycle of src/archive/app.py: each chat is summarised on its
\* own; _create_final_summary saves the snapshot and exports it when any chat
\* gave a summary, and catches its own exceptions. save_digest_run is not
\* called here either.
RunDigestCycleArchive ==
    /\ cycle_count < MaxCycles
    /\ \E outcome \in {"no_messages", "collect_raises", "export_raises", "ok"},
          include_json_attachment \in BOOLEAN :
        /\ outcome = "export_raises" => include_json_attachment
        /\ last_digest_file' =
               IF synthesizes(outcome) THEN snapshot(now) ELSE last_digest_file
        /\ exports' = IF outcome = "ok" /\ include_json_attachment
                      THEN exports \cup {now} ELSE exports
        /\ cycle_result' = [variant |-> "archive", outcome |-> outcome,
                            synthesized |-> synthesizes(outcome),
                            ret |-> outcome # "collect_raises", at |-> now]
    /\ cycle_count' = cycle_count + 1
    /\ UNCHANGED <<storageVars, digestVars, deliveryVars, backupDirVars,
                   notCycleVars>>

(***************************************************************************)
(* The simplified one-shot variant: src/main.py, src/output.py, src/llm.py *)
(* and src/telegram.py.                                                    *)
(***************************************************************************)
SummaryItemLimit == 80
TopItems == 2
TopDecisions == 1

OneShotChats == {"Team", "Ops"}

\* what _normalize_message makes of a message: chat, sender, time, text; the
\* model keeps the chat and the time
OneShotMessage(chat, time) == [chat |-> chat, time |-> time]

\* a digest item: a text of some length
Item(id, len) == [id |-> id, len |-> len]

\* DigestStructure.validate({}): the empty structure, which the LLM functions
\* also return when the request or the parsing of the answer fails
ValidatedEmpty ==
    [urgent |-> <<>>, decisions |-> <<>>, unanswered_mentions |-> <<>>,
     calendar |-> <<>>]

OneShotDigests ==
    {ValidatedEmpty,
     [ValidatedEmpty EXCEPT !.urgent = <<Item(1, 90)>>],
     [ValidatedEmpty EXCEPT !.urgent = <<Item(1, 10), Item(2, 80), Item(3, 81)>>,
                            !.decisions = <<Item(4, 20), Item(5, 20)>>],
     [ValidatedEmpty EXCEPT !.unanswered_mentions = <<Item(6, 100)>>,
                            !.calendar = <<[event |-> 7, date |-> 1, time |-> 0]>>]}

\* item[:80] + "..." if len(item) > 80 else item
item_text(item) ==
    IF item.len > SummaryItemLimit
    THEN [id |-> item.id, len |-> SummaryItemLimit, ellipsis |-> TRUE]
    ELSE [id |-> item.id, len |-> item.len, ellipsis |-> FALSE]

first_items(items, n) == SubSeq(items, 1, Min(n, Len(items)))

\* the lines of one section: the first n items, then "+k more" when there are more
section_lines(kind, items, n) ==
    [i \in 1..Min(n, Len(items)) |->
        [kind |-> kind, text |-> item_text(first_items(items, n)[i])]]
    \o (IF Len(items) > n
        THEN <<[kind |-> kind, more |-> Len(items) - n]>> ELSE <<>>)

count_part(label, items) ==
    IF Len(items) > 0 THEN <<[count |-> Len(items), label |-> label]>> ELSE <<>>

summary_parts(digest_data) ==
    count_part("urgent", digest_data.urgent)
    \o count_part("decisions", digest_data.decisions)
    \o count_part("needs response", digest_data.unanswered_mentions)
    \o count_part("calendar", digest_data.calendar)

\* format_telegram_summary(digest_data): the lines of the condensed summary
format_telegram_summary(digest_data) ==
    IF summary_parts(digest_data) = <<>>
    THEN <<[kind |-> "header", parts |-> <<>>]>>
    ELSE <<[kind |-> "header", parts |-> summary_parts(digest_data)]>>
         \o section_lines("urgent", digest_data.urgent, TopItems)
         \o section_lines("mention", digest_data.unanswered_mentions, TopItems)
         \o (IF digest_data.calendar # <<>>
             THEN <<[kind |-> "next", event |-> digest_data.calendar[1]]>>
             ELSE <<>>)
         \o section_lines("decision", digest_data.decisions, TopDecisions)

\* a call of format_telegram_summary with these positional arguments: the
\* function takes one, any other number raises TypeError
call_format_telegram_summary(arguments) ==
    IF Len(arguments) = 1
    THEN [raised |-> FALSE, text |-> format_telegram_summary(arguments[1])]
    ELSE [raised |-> TRUE]

\* main: chat_urls[msg['chat']] = msg['chat_url'] for the messages that carry one
chat_urls(messages) ==
    {[chat |-> messages[i].chat, url |-> messages[i].chat_url] :
        i \in {j \in 1..Len(messages) : "chat_url" \in DOMAIN messages[j]}}

\* the arguments main passes to format_telegram_summary
summary_arguments(digest_data, messages) == <<digest_data, chat_urls(messages)>>

NoActivityText == <<[kind |-> "no_activity"]>>
NoFacts == [llm_ok |-> FALSE, markdown_ok |-> FALSE, interrupted |-> FALSE]

\* sys.exit(status), or main returning (status 0)
OneShotExit(status) ==
    /\ one_pc' = "exited"
    /\ one_status' = status

\* config = load_config()
OneLoadConfig ==
    /\ one_pc = "start"
    /\ \E ok \in BOOLEAN :
        IF ok THEN one_pc' = "collect" /\ UNCHANGED one_status
        ELSE OneShotExit(1)
    /\ UNCHANGED <<one_messages, one_digest, one_facts, one_sent,
                   earlyVars, notOneshotVars>>

\* messages = await collect_messages(...): one message more of some chat
OneReadMessage ==
    /\ one_pc = "collect"
    /\ Len(one_messages) < MaxOneShot
    /\ \E chat \in OneShotChats :
        one_messages' = Append(one_messages, OneShotMessage(chat, Len(one_messages)))
    /\ UNCHANGED <<one_pc, one_digest, one_facts, one_sent, one_status,
                   earlyVars, notOneshotVars>>

\* collect_messages returns, or raises (connect failed)
OneCollected ==
    /\ one_pc = "collect"
    /\ \E ok \in BOOLEAN :
        IF ok THEN one_pc' = "collected" /\ UNCHANGED one_status
        ELSE OneShotExit(1)
    /\ UNCHANGED <<one_messages, one_digest, one_facts, one_sent,
                   earlyVars, notOneshotVars>>

\* if not messages: send the "No activity" text and return
OneNoMessages ==
    /\ one_pc = "collected"
    /\ one_messages = <<>>
    /\ \E sent \in BOOLEAN :
        IF sent THEN one_sent' = Append(one_sent, NoActivityText) /\ OneShotExit(0)
        ELSE UNCHANGED one_sent /\ OneShotExit(1)
    /\ UNCHANGED <<one_messages, one_digest, one_facts, earlyVars, notOneshotVars>>

\* digest_data = await generate_digest(...): the validated answer; the empty
\* structure when the request failed; ValueError for an unsupported provider
OneGenerate ==
    /\ one_pc = "collected"
    /\ one_messages # <<>>
    /\ \E outcome \in {"answer", "request_failed", "unsupported_provider"} :
        CASE outcome = "answer" ->
                /\ \E digest_data \in OneShotDigests : one_digest' = digest_data
                /\ one_facts' = [one_facts EXCEPT !.llm_ok = TRUE]
                /\ one_pc' = "digested"
                /\ UNCHANGED one_status
          [] outcome = "request_failed" ->
                /\ one_digest' = ValidatedEmpty
                /\ one_pc' = "digested"
                /\ UNCHANGED <<one_facts, one_status>>
          [] OTHER ->
                /\ OneShotExit(1)
                /\ UNCHANGED <<one_digest, one_facts>>
    /\ UNCHANGED <<one_messages, one_sent, earlyVars, notOneshotVars>>

\* markdown_file = create_markdown_file(...): the path, "" when the write
\* failed; os.makedirs may raise
OneMarkdown ==
    /\ one_pc = "digested"
    /\ \E outcome \in {"written", "write_failed", "makedirs_raises"} :
        CASE outcome = "written" ->
                /\ one_facts' = [one_facts EXCEPT !.markdown_ok = TRUE]
                /\ one_pc' = "written"
                /\ UNCHANGED one_status
          [] outcome = "write_failed" ->
                /\ one_pc' = "written"
                /\ UNCHANGED <<one_facts, one_status>>
          [] OTHER ->
                /\ OneShotExit(1)
                /\ UNCHANGED one_facts
    /\ UNCHANGED <<one_messages, one_digest, one_sent, earlyVars, notOneshotVars>>

\* chat_urls, summary_text = format_telegram_summary(digest_data, chat_urls),
\* await send_summary(summary_text, ...), and the end of main
OneSummarize ==
    /\ one_pc = "written"
    /\ LET summary == call_format_telegram_summary(
                          summary_arguments(one_digest, one_messages))
       IN  IF summary.raised
           THEN UNCHANGED one_sent /\ OneShotExit(1)
           ELSE \E sent \in BOOLEAN :
                   IF sent
                   THEN one_sent' = Append(one_sent, summary.text) /\ OneShotExit(0)
                   ELSE UNCHANGED one_sent /\ OneShotExit(1)
    /\ UNCHANGED <<one_messages, one_digest, one_facts, earlyVars, notOneshotVars>>

\* KeyboardInterrupt while main runs: sys.exit(0)
OneInterrupt ==
    /\ one_pc # "exited"
    /\ one_facts' = [one_facts EXCEPT !.interrupted = TRUE]
    /\ OneShotExit(0)
    /\ UNCHANGED <<one_messages, one_digest, one_sent, earlyVars, notOneshotVars>>

(***************************************************************************)
(* The gateway's fetch of one conversation:                                *)
(* TelegramDigestClient.get_chat_messages (src/src/telegram_client.py) and *)
(* TelegramDigestClient._collect_chat_messages (src/telegram.py).          *)
(***************************************************************************)
FetchVariants == {"get_chat_messages", "_collect_chat_messages"}

\* e.seconds of a FloodWaitError
FloodSeconds == {5, 30}

NoFetch ==
    [pc |-> "idle", variant |-> "get_chat_messages", read |-> <<>>, yielded |-> 0,
     flood |-> 0, slept |-> <<>>, entity_calls |-> 0, ret |-> <<>>]

RECURSIVE insert_by_timestamp(_, _)
\* where list.sort(key=timestamp), which is stable, puts m among sorted messages
insert_by_timestamp(sorted, m) ==
    IF sorted = <<>> THEN <<m>>
    ELSE IF sorted[Len(sorted)].timestamp <= m.timestamp THEN Append(sorted, m)
    ELSE Append(insert_by_timestamp(SubSeq(sorted, 1, Len(sorted) - 1), m),
                sorted[Len(sorted)])

RECURSIVE sort_by_timestamp(_)
\* messages.sort(key=lambda x: x.timestamp)
sort_by_timestamp(messages) ==
    IF messages = <<>> THEN <<>>
    ELSE insert_by_timestamp(
             sort_by_timestamp(SubSeq(messages, 1, Len(messages) - 1)),
             messages[Len(messages)])

\* what the call returns when the iteration ends: get_chat_messages sorts,
\* oldest first; _collect_chat_messages returns the messages as read
fetch_return(variant, read) ==
    IF variant = "get_chat_messages" THEN sort_by_timestamp(read) ELSE read

\* mutant: the messages read before the rate limit are returned
on_flood_wait_Partial(variant, read) == fetch_return(variant, read)

\* except FloodWaitError: ... return []
on_flood_wait(variant, read) == <<>>

\* the provider yields messages newest first: the k-th has timestamp
\* MaxFetchMsgs - k
yielded_timestamp(k) == MaxFetchMsgs - k

\* a call of get_chat_messages / _collect_chat_messages begins
StartFetch ==
    /\ fetch.pc \in {"idle", "returned"}
    /\ fetch_count < MaxFetches
    /\ \E variant \in FetchVariants :
        fetch' = [NoFetch EXCEPT !.pc = "entity", !.variant = variant]
    /\ fetch_count' = fetch_count + 1
    /\ UNCHANGED <<earlyVars, notFetchVars>>

\* entity = await self.client.get_entity(chat_identifier)
GetEntity ==
    /\ fetch.pc = "entity"
    /\ \/ fetch' = [fetch EXCEPT !.pc = "iter", !.entity_calls = @ + 1]
       \/ \E seconds \in FloodSeconds :
            fetch' = [fetch EXCEPT !.pc = "sleeping", !.flood = seconds,
                                   !.entity_calls = @ + 1]
       \/ fetch' = [fetch EXCEPT !.pc = "returned", !.ret = <<>>,
                                 !.entity_calls = @ + 1]
    /\ UNCHANGED <<fetch_count, earlyVars, notFetchVars>>

\* one turn of `async for message in self.client.iter_messages(...)`:
\* a message with text is kept, one without is skipped; in
\* _collect_chat_messages a message older than the cutoff ends the loop;
\* the provider may signal a rate limit, or fail otherwise
ReadMessage ==
    /\ fetch.pc = "iter"
    /\ fetch.yielded < MaxFetchMsgs
    /\ \/ \E has_text \in BOOLEAN :
            fetch' = [fetch EXCEPT
                        !.yielded = @ + 1,
                        !.read = IF has_text
                                 THEN Append(@, [timestamp |->
                                          yielded_timestamp(fetch.yielded + 1)])
                                 ELSE @]
       \/ /\ fetch.variant = "_collect_chat_messages"
          /\ fetch' = [fetch EXCEPT !.pc = "returned",
                                    !.ret = fetch_return(fetch.variant, fetch.read)]
       \/ \E seconds \in FloodSeconds :
            fetch' = [fetch EXCEPT !.pc = "sleeping", !.flood = seconds]
       \/ fetch' = [fetch EXCEPT !.pc = "returned", !.ret = <<>>]
    /\ UNCHANGED <<fetch_count, earlyVars, notFetchVars>>

\* the iteration is exhausted: the messages are returned
EndOfMessages ==
    /\ fetch.pc = "iter"
    /\ fetch' = [fetch EXCEPT !.pc = "returned",
                              !.ret = fetch_return(fetch.variant, fetch.read)]
    /\ UNCHANGED <<fetch_count, earlyVars, notFetchVars>>

\* await asyncio.sleep(e.seconds); return []
FloodSleep ==
    /\ fetch.pc = "sleeping"
    /\ fetch' = [fetch EXCEPT !.pc = "returned",
                              !.slept = Append(@, fetch.flood),
                              !.ret = on_flood_wait(fetch.variant, fetch.read)]
    /\ UNCHANGED <<fetch_count, earlyVars, notFetchVars>>

(***************************************************************************)
(* TelegramDigestClient.collect_messages_from_watchlist, and the digest    *)
(* made of what it returns (run_digest_cycle of src/app.py).  A            *)
(* conversation is named by the chat_name its messages carry.              *)
(***************************************************************************)
WatchlistEntry(name, enabled) == [name |-> name, enabled |-> enabled]

\* watchlist.yml: the two conversations in either order, any number of them
\* listed as channels and the rest as chats, each enabled or not
Watchlists ==
    {[channels |-> [i \in 1..k |-> WatchlistEntry(order[i], enabled[i])],
      chats |-> [i \in 1..(2 - k) |-> WatchlistEntry(order[k + i], enabled[k + i])]] :
        order \in {<<<<"A">>, <<"B">>>>, <<<<"B">>, <<"A">>>>},
        k \in 0..2, enabled \in [1..2 -> BOOLEAN]}

\* what get_chat_messages returns for a conversation: the timestamps of its
\* messages, oldest first
Feeds ==
    {<<>>} \cup {<<t>> : t \in 0..MaxStamp}
    \cup {<<t, u>> : t \in 0..MaxStamp, u \in 1..MaxStamp}

SortedFeeds == {feed \in Feeds : Len(feed) = 2 => feed[1] < feed[2]}

NoWatchlist == [channels |-> <<>>, chats |-> <<>>]
NoCollection == [done |-> FALSE, messages |-> <<>>]

\* the names of the enabled entries of a list, in the order of the list
enabled_names(entries) ==
    LET enabled == SelectSeq(entries, LAMBDA entry : entry.enabled)
    IN  [i \in 1..Len(enabled) |-> enabled[i].name]

\* the order in which collect_messages_from_watchlist visits the conversations
watchlist_order(w) == enabled_names(w.channels) \o enabled_names(w.chats)

\* the messages get_chat_messages returns for one conversation
messages_of(name, feed) ==
    [i \in 1..Len(feed[name]) |-> [chat_name |-> name, timestamp |-> feed[name][i]]]

\* all_messages before the sort: all_messages.extend(messages) for every
\* enabled channel, then for every enabled chat
all_messages_extended(w, feed) ==
    Flatten([i \in 1..Len(watchlist_order(w)) |->
                messages_of(watchlist_order(w)[i], feed)])

\* collect_messages_from_watchlist: the messages of every conversation, then
\* all_messages.sort(key=lambda x: x.timestamp)
collect_messages_from_watchlist(w, feed) ==
    sort_by_timestamp(all_messages_extended(w, feed))

\* what the LLM layer does for a conversation of a collected batch
CollectOutcomes ==
    {[raised |-> FALSE, data |-> PlainDigest],
     [raised |-> TRUE, error |-> "LLM API Error"]}

\* messages = await self.telegram_client.collect_messages_from_watchlist(...)
CollectFromWatchlist ==
    /\ pc = "idle"
    /\ ~collected.done
    /\ \E w \in Watchlists, feed \in [Chats -> SortedFeeds] :
        /\ watchlist' = w
        /\ collected' = [done |-> TRUE,
                         messages |-> collect_messages_from_watchlist(w, feed)]
    /\ UNCHANGED <<earlyVars, notCollectVars>>

\* filtered_messages = self.message_processor.filter_messages(messages, username),
\* which wraps every message, and the call of generate_digest on them
StartDigestCollected ==
    /\ pc = "idle"
    /\ collected.done
    /\ collected.messages # <<>>
    /\ filtered_messages' =
           [i \in 1..Len(collected.messages) |-> collected.messages[i].chat_name]
    /\ chat_messages' =
           group_by_chat([i \in 1..Len(collected.messages) |->
                             collected.messages[i].chat_name], <<>>)
    /\ result' = NoResult
    /\ pc' = "chats"
    /\ llm_raw' = <<>>
    /\ chat_digests' = <<>>
    /\ llm_calls' = 0
    /\ UNCHANGED <<storageVars, appVars>>

ProcessChatCollected == ProcessChatFrom(CollectOutcomes)

Init ==
    /\ cursors_file = NoFile
    /\ backups = EmptyMap
    /\ now = 0
    /\ instance = 1
    /\ last_op = NoOp
    /\ saved = NoSave
    /\ nops = 0
    /\ history_file = NoFile
    /\ appended = <<>>
    /\ pc = "idle"
    /\ filtered_messages = <<>>
    /\ chat_messages = <<>>
    /\ llm_raw = <<>>
    /\ chat_digests = <<>>
    /\ llm_calls = 0
    /\ result = NoResult
    /\ delivered = NoDelivery
    /\ other_backups = {}
    /\ last_digest_file = NoFile
    /\ processor = [exclude_emoji_only |-> TRUE]
    /\ inbox = <<>>
    /\ filter_result = NoFilterResult
    /\ bot_pc = "start"
    /\ args = NoArgs
    /\ exit_status = NoStatus
    /\ cli_result = "none"
    /\ running = FALSE
    /\ stop_requested = FALSE
    /\ interrupted = FALSE
    /\ interval_numeric = TRUE
    /\ sleep_seconds = 0
    /\ config_file = 1
    /\ config = 0
    /\ last_config_load = 0
    /\ components = NoComponents
    /\ connected = FALSE
    /\ reloaded = FALSE
    /\ last_cycle = "none"
    /\ slices_after_stop = 0
    /\ interval_minutes = 0
    /\ waited = 0
    /\ cycle_count = 0
    /\ cycle_result = NoCycle
    /\ exports = {}
    /\ one_pc = "start"
    /\ one_messages = <<>>
    /\ one_digest = ValidatedEmpty
    /\ one_facts = NoFacts
    /\ one_sent = <<>>
    /\ one_status = NoStatus
    /\ fetch = NoFetch
    /\ fetch_count = 0
    /\ watchlist = NoWatchlist
    /\ collected = NoCollection

NextCursors == SaveCursors \/ LoadCursors \/ ResetCursors \/ Restart \/ Tick
SpecCursors == Init /\ [][NextCursors]_vars

NextDigest == StartDigest \/ ProcessChat \/ FinishDigest
\* The set of answers is evaluated in full in the initial state, before any
\* step draws from it.
InitDigest == Init /\ \A outcome \in LLMOutcomes : outcome \in LLMOutcomes
SpecDigest == InitDigest /\ [][NextDigest]_vars

\* generate_digest on one conversation, over every LLM answer of AllDigests
NextRepair == StartDigestOne \/ ProcessChatWide \/ FinishDigest
InitRepair == Init /\ \A outcome \in WideOutcomes : outcome \in WideOutcomes
SpecRepair == InitRepair /\ [][NextRepair]_vars

NextDelivery == StartDigest \/ ProcessChatDelivery \/ FinishDigest \/ SendDigest
InitDelivery == Init /\ \A outcome \in DeliveryOutcomes : outcome \in DeliveryOutcomes
SpecDelivery == InitDelivery /\ [][NextDelivery]_vars

NextBackups ==
    SaveCursorsTwo \/ Tick \/ PassDays \/ PutOtherEntries \/ CleanupOldBackups
SpecBackups == Init /\ [][NextBackups]_vars

NextStats ==
    SaveCursorsTwo \/ SaveDigestRunStamped \/ SaveLastDigest \/ Tick \/ GetStorageStats
SpecStats == Init /\ [][NextStats]_vars

NextFilter == ConfigureProcessor \/ ReceiveMessage \/ FilterMessages
SpecFilter == Init /\ [][NextFilter]_vars

\* the steps of the process itself, and those of its environment
BotSteps ==
    \/ ParseArgs \/ LoadConfigMain \/ StatsCommand \/ ResetCursorsCommand
    \/ InitializeMain \/ RunOnce \/ StartContinuous \/ ExitLoop \/ StartCycle
    \/ ReloadConfig \/ ReloadFails \/ ReloadCleanup \/ ReloadInit \/ CycleReturns
    \/ SleepSlice \/ Pause
NextBot == BotSteps \/ Stop \/ Interrupt \/ EditConfig
\* every call the event loop awaits returns or raises, and the coroutine is
\* resumed: the process does not stay at one position for ever
SpecBot == Init /\ [][NextBot]_vars /\ WF_vars(BotSteps)

NextCycle == RunDigestCycle \/ RunDigestCycleArchive \/ Tick
SpecCycle == Init /\ [][NextCycle]_vars

OneShotSteps ==
    \/ OneLoadConfig \/ OneReadMessage \/ OneCollected \/ OneNoMessages
    \/ OneGenerate \/ OneMarkdown \/ OneSummarize
NextOneShot == OneShotSteps \/ OneInterrupt
\* asyncio.run(main()) runs main to its end: every awaited call returns or raises
SpecOneShot == Init /\ [][NextOneShot]_vars /\ WF_vars(OneShotSteps)

NextFetch == StartFetch \/ GetEntity \/ ReadMessage \/ EndOfMessages \/ FloodSleep
SpecFetch == Init /\ [][NextFetch]_vars

NextGate == ConfigureProcessor \/ ReceiveSignalMessage \/ FilterMessages
SpecGate == Init /\ [][NextGate]_vars

NextCollect ==
    CollectFromWatchlist \/ StartDigestCollected \/ ProcessChatCollected \/ FinishDigest
InitCollect == Init /\ \A w \in Watchlists : w \in Watchlists
SpecCollect == InitCollect /\ [][NextCollect]_vars

NextFullBackups ==
    SaveCursorsTwo \/ Tick \/ PassDays \/ BackupAllData \/ CleanupOldBackups
SpecFullBackups == Init /\ [][NextFullBackups]_vars

NextHistoryLoss == SaveDigestRunNow \/ DamageHistory \/ Tick
SpecHistoryLoss == Init /\ [][NextHistoryLoss]_vars

NextHistory == SaveDigestRun
SpecHistory == Init /\ [][NextHistory]_vars

(***************************************************************************)
(* Claims about StorageManager.                                            *)
(***************************************************************************)
PersistedHistory == load_digest_history(history_file)

\* C1: after any sequence of save_digest_run calls the persisted history
\* holds at most 100 records, and they are the most recently appended
\* records (up to 100) in append order: the oldest are the ones dropped.
C1_HistoryCapped ==
    LET h == PersistedHistory
        n == Len(appended)
    IN  /\ Len(h) <= 100
        /\ Len(h) = Min(n, 100)
        /\ \A i \in 1..Len(h) : h[i] = appended[n - Len(h) + i]

\* C1 witness: 102 records saved, 100 kept, the two oldest gone.
C1_Witness ==
    /\ Len(appended) = 102
    /\ Len(PersistedHistory) = 100
    /\ PersistedHistory[1].message_count = 2
    /\ PersistedHistory[100].message_count = 101

\* C2: a successful save_cursors(m) followed by load_cursors(), with no save
\* or reset in between, returns a mapping equal to m, also when a new
\* StorageManager instance over the same data directory does the load.
C2_CursorRoundTrip ==
    (last_op.op = "load_cursors" /\ saved.valid) => last_op.ret = saved.cursors

\* C2 witness: a two-entry mapping with a negative and a two-digit value,
\* saved by one instance and loaded back by the next one.
C2_Witness ==
    /\ last_op.op = "load_cursors"
    /\ saved.valid
    /\ last_op.by # saved.by
    /\ DOMAIN saved.cursors = CursorKeys
    /\ saved.cursors["@test1"] = 12
    /\ saved.cursors["@test2"] = -1
    /\ last_op.ret = saved.cursors

\* C3: a reset_cursors(ids) that succeeds sets to 0 exactly the cursors whose
\* identifier is in ids and was already present, leaves every other cursor
\* unchanged and inserts no identifier; with no identifiers it leaves an
\* empty mapping.
C3_ResetFrame ==
    [][ (nops' # nops /\ last_op'.op = "reset_cursors" /\ last_op'.ret) =>
        LET before == load_cursors(cursors_file)
            after == load_cursors(cursors_file')
            ids == last_op'.ids
        IN  IF ids = {}
            THEN DOMAIN after = {}
            ELSE /\ DOMAIN after = DOMAIN before
                 /\ \A k \in DOMAIN before :
                        after[k] = IF k \in ids THEN 0 ELSE before[k] ]_vars

\* C3 witness: @test1 was reset to 0 together with an identifier that was
\* absent, the cursor of @test2 kept its value.
C3_Witness ==
    /\ last_op.op = "reset_cursors"
    /\ last_op.ret
    /\ last_op.ids = {"@test1"}
    /\ DOMAIN load_cursors(cursors_file) = CursorKeys
    /\ load_cursors(cursors_file)["@test1"] = 0
    /\ load_cursors(cursors_file)["@test2"] = 12

(***************************************************************************)
(* Claims about DigestGenerator.                                           *)
(***************************************************************************)
SixKeys ==
    {"urgent", "decisions", "topics", "people_updates", "calendar",
     "unanswered_mentions"}

\* a structure with exactly the six keys, each list-valued
Conformant(sd) == DOMAIN sd = SixKeys /\ \A k \in SixKeys : IsList(sd[k])

Returned == pc = "done" /\ result.returned

\* C4: generate_digest called with zero filtered messages returns success,
\* the text "No new messages to digest.", a structure of six empty lists and
\* message_count 0, and the LLM layer is not invoked.
C4_EmptyShortCircuit ==
    (Returned /\ filtered_messages = <<>>) =>
        /\ result.success
        /\ result.digest_text = [literal |-> "No new messages to digest."]
        /\ DOMAIN result.structured_data = SixKeys
        /\ \A k \in SixKeys : result.structured_data[k] = JList(<<>>)
        /\ result.metadata.message_count = 0
        /\ llm_calls = 0

\* C4 witness: a call with no messages has returned.
C4_Witness == Returned /\ filtered_messages = <<>> /\ llm_calls = 0

\* C5: whenever the LLM layer's value is reported invalid by
\* _validate_digest_schema, what _fix_digest_schema returns for it is
\* reported valid.
C5_RepairYieldsValid ==
    \A i \in 1..Len(chat_digests) :
        (~llm_raw[i].raised /\ ~_validate_digest_schema(llm_raw[i].data).valid) =>
            /\ chat_digests[i].structured_data = _fix_digest_schema(llm_raw[i].data)
            /\ _validate_digest_schema(chat_digests[i].structured_data).valid

\* C5 witness: an answer with a missing field, mistyped fields and malformed
\* entries was repaired: the malformed entries are gone, the good ones kept.
C5_Witness ==
    /\ Len(chat_digests) = 1
    /\ ~llm_raw[1].raised
    /\ llm_raw[1].data =
          MakeDigest(JNull, Absent, JList(<<GoodTopic, Txt_a>>),
                     JList(<<UpdateNoUpdate>>),
                     JList(<<EventNoDate, EventWithTime>>), Txt_a)
    /\ ~_validate_digest_schema(llm_raw[1].data).valid
    /\ chat_digests[1].structured_data["urgent"] = JList(<<>>)
    /\ chat_digests[1].structured_data["decisions"] = JList(<<>>)
    /\ chat_digests[1].structured_data["topics"] = JList(<<GoodTopic>>)
    /\ chat_digests[1].structured_data["people_updates"] = JList(<<>>)
    /\ chat_digests[1].structured_data["calendar"] = JList(<<EventWithTime>>)

\* C6 (as claimed): the structured_data of every DigestResult returned by
\* generate_digest has the six keys, each list-valued, and no other key.
C6_AlwaysSixKeys == Returned => Conformant(result.structured_data)

\* C7 (as claimed): whatever the LLM layer returns for the conversations,
\* generate_digest returns success with a conformant structure and the
\* discrepancies recorded in validation_errors.
C7_NonConformanceNeverFatal ==
    (Returned /\ filtered_messages # <<>>
        /\ \A i \in 1..Len(llm_raw) : ~llm_raw[i].raised) =>
        /\ result.success
        /\ Conformant(result.structured_data)
        /\ result.metadata.validation_errors =
              Flatten([i \in 1..Len(llm_raw) |->
                          _validate_digest_schema(llm_raw[i].data).errors])

\* C8 (as claimed): if the LLM call of a conversation raises, the result is
\* still a success, the other conversations' digests are in it, and the
\* failing conversation has a non-empty validation_errors list naming the
\* failure in chat_details and contributes nothing to the digest.
C8_FailureIsolated ==
    (Returned /\ \E i \in 1..Len(llm_raw) : llm_raw[i].raised) =>
        /\ result.success
        /\ \A i \in 1..Len(llm_raw) :
              IF llm_raw[i].raised
              THEN /\ chat_digests[i].structured_data = EmptyDigest
                   /\ result.metadata.chat_details[i].chat_name = chat_messages[i].chat_name
                   /\ result.metadata.chat_details[i].validation_errors =
                         <<[kind |-> "Failed to process", text |-> llm_raw[i].error]>>
              ELSE \A k \in SixKeys :
                      Len(result.structured_data[k].list)
                          >= Len(chat_digests[i].structured_data[k].list)

\* C9 (as claimed): when the LLM layer raises for a non-empty list of
\* messages, generate_digest returns success = false, the exception text as
\* error_message and the text "Failed to generate digest due to error."
C9_LlmErrorIsFailure ==
    (Returned /\ filtered_messages # <<>>
        /\ \A i \in 1..Len(llm_raw) : llm_raw[i].raised) =>
        /\ ~result.success
        /\ result.error_message = [text |-> llm_raw[1].error]
        /\ result.digest_text = [literal |-> "Failed to generate digest due to error."]

\* number of entries of field k in the digests before the i-th one
RECURSIVE EntriesBefore(_, _, _)
EntriesBefore(digests, i, k) ==
    IF i = 1 THEN 0
    ELSE EntriesBefore(digests, i - 1, k)
         + Len(digests[i - 1].structured_data[k].list)

RECURSIVE EntriesIn(_, _)
EntriesIn(digests, k) ==
    IF digests = <<>> THEN 0
    ELSE Len(Head(digests).structured_data[k].list) + EntriesIn(Tail(digests), k)

Delivered == pc = "sent"

\* C11 (as claimed): for every conversation of a delivered digest, the
\* structure the delivery filter rebuilds from the combined structure is, for
\* each of the six fields, that conversation's own per-conversation list.
C11_DeliveryReconstructs ==
    Delivered =>
        \A i \in 1..Len(chat_digests) :
            /\ delivered[i].chat_name = chat_digests[i].chat_name
            /\ \A k \in SixKeys :
                  delivered[i].chat_structured_data[k] = chat_digests[i].structured_data[k]

\* C13: every save_cursors call made while a cursors file exists (directly or
\* through reset_cursors) either fails at the copy and writes nothing, or
\* leaves under this second's backup name the content the cursors file had
\* immediately before the call.
C13_BackupBeforeWrite ==
    [][ (/\ nops' # nops
         /\ last_op'.op \in {"save_cursors", "reset_cursors"}
         /\ cursors_file.exists) =>
            \/ /\ ~last_op'.ret
               /\ cursors_file' = cursors_file
               /\ backups' = backups
            \/ /\ now \in DOMAIN backups'
               /\ backups'[now] = cursors_file ]_vars

\* C13 witness: a save replaced {"@test1": 12} by {"@test2": -1}; the backup
\* of that second holds the replaced content although an earlier backup of
\* the same second existed.
C13_Witness ==
    /\ last_op.op = "save_cursors"
    /\ last_op.ret
    /\ nops = 3
    /\ now = 0
    /\ cursors_file = FileWith(DumpCursors([k \in {"@test2"} |-> -1]))
    /\ 0 \in DOMAIN backups
    /\ backups[0] = FileWith(DumpCursors([k \in {"@test1"} |-> 12]))

\* C12: a cleanup_old_backups call that returns True removes exactly the
\* files of backups/ named <x>_backup_<timestamp>... whose timestamp is more
\* than backup_days before the call: a cursors backup made at second t is
\* gone iff t < now - 30 days, and files without a timestamp after the first
\* "_backup_", files without the marker and directories stay.
C12_CleanupRetention ==
    [][ (nops' # nops /\ last_op'.op = "cleanup_old_backups" /\ last_op'.ret) =>
        LET cutoff == now - BackupDays * Day
        IN  /\ DOMAIN backups' = {t \in DOMAIN backups : t >= cutoff}
            /\ \A t \in DOMAIN backups' : backups'[t] = backups[t]
            /\ other_backups' =
                  {e \in other_backups : ~(e.kind = "stamped" /\ e.made < cutoff)} ]_vars

\* C12 witness: a cleanup ran 30 days and one second after the start; the
\* stamped file made at second 0 is gone, the cursors backup made at second
\* 1, exactly 30 days old, and the five other entries are still there.
C12_Witness ==
    /\ last_op.op = "cleanup_old_backups"
    /\ last_op.ret
    /\ now = BackupDays * Day + 1
    /\ DOMAIN backups = {1}
    /\ Cardinality(other_backups) = 5
    /\ \A e \in other_backups : e.made = 0 /\ e.kind # "stamped"

\* C16 (as claimed): when the save_cursors and save_digest_run calls made so
\* far succeeded, get_storage_stats reports cursor_count = the number of
\* entries of the saved mapping, history_count = the number of persisted
\* records, and a true existence flag for every state file written.
C16_StatsConsistent ==
    (last_op.op = "get_storage_stats" /\ saved.valid /\ appended # <<>>) =>
        LET stats == last_op.ret
        IN  /\ "error" \notin DOMAIN stats
            /\ stats.cursors_exist
            /\ stats.history_exist
            /\ last_digest_file.exists => stats.last_digest_exist
            /\ stats.cursor_count = Cardinality(DOMAIN saved.cursors)
            /\ stats.history_count = Min(Len(appended), HistoryCap)

(***************************************************************************)
(* Claims about the archive MessageProcessor.                              *)
(***************************************************************************)
\* message_id of every message the last filter_messages call returned, in order
ReturnedIds ==
    [i \in 1..Len(filter_result.messages) |->
        filter_result.messages[i].message.message_id]

\* the call was made for testuser on the keyword-only, the mention+money+date
\* and the money+date message, in any order, all stamped with the same time
ThreeMessagesFiltered ==
    /\ filter_result.called
    /\ filter_result.username = Testuser
    /\ Len(inbox) = 3
    /\ {inbox[i].message_id : i \in 1..3} =
          {KeywordMsg.message_id, MentionMsg.message_id, MoneyDateMsg.message_id}

\* C14: given the keyword-only, the mention+money+date and the money+date
\* message, equally recent, filter_messages for that username returns the
\* mention+money+date message first and never has the keyword-only message
\* before the money+date message.
C14_PriorityOrdering ==
    ThreeMessagesFiltered =>
        /\ ~filter_result.raised
        /\ ReturnedIds # <<>>
        /\ ReturnedIds[1] = MentionMsg.message_id
        /\ ~\E i, j \in 1..Len(ReturnedIds) :
                /\ i < j
                /\ ReturnedIds[i] = KeywordMsg.message_id
                /\ ReturnedIds[j] = MoneyDateMsg.message_id

\* a text of symbols only: no letter, digit or underscore, and not blank
EmojiOnly(text) ==
    /\ \A i \in 1..Len(text) : ~IsWordChar(text[i])
    /\ \E i \in 1..Len(text) : ~IsSpace(text[i])

\* C15: filter_messages never returns a message whose trimmed text is shorter
\* than the 10-character minimum, nor, when exclude_emoji_only is set, a
\* message whose text is emoji-only.
C15_ShortAndEmojiExcluded ==
    filter_result.called =>
        \A i \in 1..Len(filter_result.messages) :
            LET text == filter_result.messages[i].message.text
            IN  /\ Len(strip(text)) >= MinMessageLength
                /\ processor.exclude_emoji_only => ~EmojiOnly(text)

\* a call with exclude_emoji_only set whose input holds a message that is too
\* short once trimmed and an emoji-only reply, and which returned a message
C15_Witness ==
    /\ filter_result.called
    /\ processor.exclude_emoji_only
    /\ \E i, j \in 1..Len(inbox) :
        /\ inbox[i].message_id = PaddedMsg.message_id
        /\ inbox[j].message_id = EmojiMsg.message_id
    /\ filter_result.messages # <<>>

(***************************************************************************)
(* Claims about main() and TelegramDigestBot.run_continuous.               *)
(***************************************************************************)
\* the process was invoked with --stats or with --reset-cursors
SpecialCommand == args.stats \/ args.reset_cursors

\* initialize_components was never entered, the gateway is not connected and
\* no digest cycle is running or has run
NothingStarted ==
    /\ \A c \in ComponentNames \ {"storage"} : components[c] = 0
    /\ ~connected
    /\ bot_pc \notin {"run", "loop_top", "once_cycle", "cycle", "sleep", "pause",
                      "reload_cleanup", "reload_init"}
    /\ last_cycle = "none"

\* C17, as stated: invoked with --stats or --reset-cursors the process exits
\* before initialize_components: the gateway never connects and no digest
\* cycle runs; --stats exits with status 0, --reset-cursors with 0 when
\* reset_cursors succeeded and with 1 when it failed.
C17_SpecialCommandsExit ==
    SpecialCommand =>
        /\ NothingStarted
        /\ bot_pc = "exited" =>
              IF args.stats THEN exit_status = 0
              ELSE /\ cli_result = "reset_ok" => exit_status = 0
                   /\ cli_result = "reset_failed" => exit_status = 1

\* C17, amended: as above, but the statuses 0 of --stats and 0 or 1 of
\* --reset-cursors are those of a process whose configuration loaded and whose
\* StorageManager was constructed; when load_config fails or StorageManager
\* raises, the command is not carried out and the status is 1.
C17_SpecialCommandsExitLoaded ==
    SpecialCommand =>
        /\ NothingStarted
        /\ bot_pc = "exited" =>
              IF cli_result \in {"load_failed", "storage_raised"} THEN exit_status = 1
              ELSE IF args.stats THEN cli_result = "stats_printed" /\ exit_status = 0
              ELSE \/ cli_result = "reset_ok" /\ exit_status = 0
                   \/ cli_result = "reset_failed" /\ exit_status = 1

\* --reset-cursors alone, reset_cursors returned False, and the process exited
C17_Witness ==
    /\ bot_pc = "exited"
    /\ ~args.stats
    /\ args.reset_cursors
    /\ cli_result = "reset_failed"

\* C18: in continuous mode, while stop() is not called and no interrupt
\* arrives, every digest cycle that fails is eventually followed by the start
\* of another digest cycle.
C18_BadCycleFollowed ==
    (~args.once /\ last_cycle = "failed" /\ bot_pc # "cycle")
        ~> (bot_pc = "cycle" \/ stop_requested \/ interrupted)

\* a digest cycle in progress after a failed one, with no stop and no interrupt
C18_Witness ==
    /\ bot_pc = "cycle"
    /\ last_cycle = "failed"
    /\ ~stop_requested
    /\ ~interrupted

\* C19: once stop() has cleared the running flag no further digest cycle is
\* started, and the loop exits after at most the digest cycle in progress
\* plus one sleep slice.
C19_StopIsPrompt ==
    /\ [][stop_requested => ~(bot_pc # "cycle" /\ bot_pc' = "cycle")]_vars
    /\ [](slices_after_stop <= 1)
    /\ [](stop_requested => <>(bot_pc = "exited"))

\* C20: the digest cycle that follows a hot reload runs with storage, gateway,
\* filter and synthesis engine all constructed from the reloaded
\* configuration, never with a mix of old and new components.
C20_ReloadRebuildsAll ==
    (bot_pc = "cycle" /\ reloaded) =>
        \A c \in ComponentNames : components[c] = config

\* C21: in continuous mode a digest cycle that ends in an error is followed
\* by a 60-second pause and then the next attempt: when the next digest cycle
\* starts, the loop has waited one pause of 60 seconds, not interval_minutes.
C21_FailedCycleRetriedAfterPause ==
    (bot_pc = "cycle" /\ last_cycle = "failed") => waited = Slice

\* the positions of run_continuous inside its loop
LoopPcs == {"loop_top"} \cup AwaitPcs

\* C28: run_continuous reads digest.interval_minutes once, when it starts: a
\* hot reload replaces the configuration, and the wait that begins after each
\* digest cycle is still the interval read at the start.
C28_IntervalReadOnce ==
    [][ /\ (bot_pc = "run" /\ bot_pc' = "loop_top") =>
                interval_minutes' = interval_in(config)
        /\ bot_pc \in LoopPcs => interval_minutes' = interval_minutes
        /\ (bot_pc = "loop_top" /\ bot_pc' = "reload_cleanup") =>
                config' = config_file
        /\ (bot_pc = "cycle" /\ bot_pc' = "sleep") =>
                sleep_seconds' = interval_minutes * 60 ]_vars

\* a wait that begins after a reload changed interval_minutes and rebuilt every
\* component, and that still lasts the interval read at the start
C28_Witness ==
    /\ bot_pc = "sleep"
    /\ waited = 0
    /\ interval_in(config) # interval_minutes
    /\ \A c \in ComponentNames : components[c] = config
    /\ sleep_seconds = interval_minutes * 60

(***************************************************************************)
(* Claims about run_digest_cycle.                                          *)
(***************************************************************************)
\* C22: after a digest cycle of the full variant that synthesized a digest,
\* last_digest.json holds that cycle's snapshot and digest_history.json holds
\* a run record of it; after a cycle that returned True having synthesized a
\* digest, get_last_run_time returns that cycle's timestamp.
C22_CyclePersistsRun ==
    cycle_result.synthesized =>
        /\ last_digest_file = snapshot(cycle_result.at)
        /\ PersistedHistory # <<>>
        /\ cycle_result.ret =>
               get_last_run_time(PersistedHistory)
                   = [t |-> cycle_result.at, aware |-> FALSE]

\* the part of it that the code does: the snapshot is the last cycle's
CycleSnapshotSaved ==
    cycle_result.synthesized => last_digest_file = snapshot(cycle_result.at)

(***************************************************************************)
(* Claims about the one-shot variant.                                      *)
(***************************************************************************)
\* C23: when the one-shot run has ended without an interrupt, having collected
\* at least one message, with the LLM call and the Markdown write succeeded,
\* the condensed summary of the digest has been sent to the saved messages
\* and the exit status is 0.
C23_OneShotSendsSummary ==
    (/\ one_pc = "exited"
     /\ one_messages # <<>>
     /\ one_facts.llm_ok /\ one_facts.markdown_ok
     /\ ~one_facts.interrupted)
        => /\ one_status = 0
           /\ one_sent = <<format_telegram_summary(one_digest)>>

(***************************************************************************)
(* Claims about the gateway.                                               *)
(***************************************************************************)
\* C24: a conversation fetch during which the provider signalled a rate limit
\* has, once returned, slept exactly once and for the signalled duration,
\* returned an empty result whatever it had read, and asked the provider for
\* the conversation once only; while it sleeps it has not slept before.
C24_RateLimitReturnsEmpty ==
    /\ (fetch.pc = "returned" /\ fetch.flood > 0) =>
           /\ fetch.ret = <<>>
           /\ fetch.slept = <<fetch.flood>>
           /\ fetch.entity_calls = 1
    /\ fetch.pc = "sleeping" => fetch.slept = <<>> /\ fetch.entity_calls = 1
    /\ fetch.flood = 0 => fetch.slept = <<>>

\* a rate limit arrived after two messages had been read, and the call returned
C24_Witness ==
    /\ fetch.pc = "returned"
    /\ fetch.flood \in FloodSeconds
    /\ Len(fetch.read) = 2
    /\ fetch.ret = <<>>
    /\ fetch.slept = <<fetch.flood>>

(***************************************************************************)
(* Claims about the relevance gate.                                        *)
(***************************************************************************)
\* the message contains an "@", carries media, or is a reply
HasSignal(msg) == Contains(msg.text, <<"@">>) \/ msg.has_media \/ msg.is_reply

\* the message is among those the last filter_messages call returned
KeptByFilter(msg) == \E k \in 1..Len(ReturnedIds) : ReturnedIds[k] = msg.message_id

CollectedInWatchlistOrder ==
    SelectSeq(watchlist_order(watchlist),
              LAMBDA name : \E i \in 1..Len(collected.messages) :
                                collected.messages[i].chat_name = name)

\* C26: in a digest made of a collected batch, the conversations of
\* chat_digests, from which the combined structure is concatenated, and of
\* the chat_details metadata are in watchlist iteration order: the enabled
\* channels, then the enabled chats.
C26_WatchlistOrder ==
    (collected.done /\ pc = "done" /\ result.success) =>
        /\ [i \in 1..Len(chat_digests) |-> chat_digests[i].chat_name]
               = CollectedInWatchlistOrder
        /\ result.structured_data = _combine_chat_digests(chat_digests)
        /\ [i \in 1..Len(result.metadata.chat_details) |->
                result.metadata.chat_details[i].chat_name]
               = CollectedInWatchlistOrder

(***************************************************************************)
(* Claims about the full backups.                                          *)
(***************************************************************************)
\* the full_backup_<timestamp> directories of backups/
FullBackupDirs ==
    {e \in other_backups :
        ~e.is_file /\ e.name = full_backup_name(e.made)}

\* C27: no step removes a full_backup_<timestamp> directory from backups/,
\* and a cleanup_old_backups call in particular leaves every one of them,
\* whatever its age: the set of full-backup directories only grows.
C27_FullBackupsKept ==
    [][ /\ \A e \in FullBackupDirs : e \in other_backups'
        /\ (nops' # nops /\ last_op'.op = "cleanup_old_backups") =>
               {e \in other_backups' : ~e.is_file} = {e \in other_backups : ~e.is_file}
      ]_vars

\* a cleanup_old_backups call returned True while backups/ held a full backup
\* made more than backup_days before, and the directory is still there
C27_Witness ==
    /\ last_op.op = "cleanup_old_backups"
    /\ last_op.ret
    /\ \E e \in FullBackupDirs : e.made < now - BackupDays * Day

(***************************************************************************)
(* Claims about save_digest_run on a damaged history.                      *)
(***************************************************************************)
\* load_digest_history fails on the file: it is there and either does not
\* parse or holds an item that is no run record
LoadFails(file) ==
    /\ file.exists
    /\ \/ ~file.readable
       \/ \E i \in 1..Len(file.body) : ~IsRunItem(file.body[i])

\* C29: a save_digest_run call made while load_digest_history fails on
\* digest_history.json returns True and leaves a history that holds the new
\* record and nothing else.
C29_FailedLoadLosesHistory ==
    [][ (Len(appended') = Len(appended) + 1 /\ LoadFails(history_file)) =>
            /\ last_op'.op = "save_digest_run" /\ last_op'.ret
            /\ history_file'.exists /\ history_file'.readable
            /\ load_digest_history(history_file') = <<appended'[Len(appended')]>>
      ]_vars

\* three runs were saved, the last one on a damaged file: the call returned
\* True and the persisted history holds that run only
C29_Witness ==
    /\ Len(appended) = 3
    /\ last_op.op = "save_digest_run" /\ last_op.ret
    /\ PersistedHistory = <<appended[3]>>

(***************************************************************************)
(* Claims about the fallback digest of a backend.                          *)
(***************************************************************************)
\* the LLM layer answered the i-th conversation with a backend's fallback
IsFallback(i) == ~llm_raw[i].raised /\ llm_raw[i].data \in FallbackDigests

\* the fallback of the i-th conversation went through validation unchanged and
\* without an error, and its synthetic entry is among the urgent items
FallbackAccepted(i) ==
    /\ chat_digests[i].structured_data = llm_raw[i].data
    /\ chat_digests[i].validation_errors = <<>>
    /\ result.metadata.chat_details[i].validation_errors = <<>>
    /\ \E j \in 1..Len(result.structured_data["urgent"].list) :
          result.structured_data["urgent"].list[j]
              = prefixed(chat_digests[i].chat_name, llm_raw[i].data["urgent"].list[1])

\* C30: when the LLM layer answered a conversation with a backend's fallback
\* digest, the DigestResult returned has success = true, the fallback passed
\* validation unchanged with no validation error for that conversation, and
\* its synthetic error entry is among the urgent items of the result.
C30_FallbackPassesValidation ==
    Returned =>
        \A i \in 1..Len(llm_raw) :
            IsFallback(i) => (result.success /\ FallbackAccepted(i))

\* the same for the results that are a success
FallbackAcceptedOnSuccess ==
    (Returned /\ result.success) =>
        \A i \in 1..Len(llm_raw) : IsFallback(i) => FallbackAccepted(i)
====
